---- MODULE Spec2Model ----
(***************************************************************************)
(* Configuration resolution and round-trip editing engine of the THEMIS   *)
(* visual editor: ConfigResolver (resolve, apply_move,                     *)
(* detach_blueprint_for_node) over the document held by ThemisConfigModel. *)
(*                                                                         *)
(* Python dicts are shared by reference.  Slot dicts live in an arena      *)
(* (doc.slots, addressed by id) so that slot_ref aliasing and the fresh    *)
(* dicts made by dict_deepcopy are explicit; nodes are addressed by id.    *)
(* An optional key is a sequence of length 0 (absent) or 1 (present).      *)
(***************************************************************************)
EXTENDS Integers, Sequences, FiniteSets, TLC

VARIABLES
  doc,       \* the document (ThemisConfigModel.data)
  insts,     \* the result of the caller's last resolve() (self.instances)
  selected,  \* the instance the caller holds (self.selected), or None
  pre,       \* history: the document before the last call
  last,      \* history: the last call, its arguments and its outcome
  detached,  \* history: the nodes on which detach has returned true
  steps      \* the number of mutating calls so far

vars == <<doc, insts, selected, pre, last, detached, steps>>

\* ---------------------------------------------------------------- bounds
MaxOps == 2
MaxRow == 2
MaxCol == 2

\* ------------------------------------------------------- optional values
None == <<>>

Some(v) == <<v>>

Has(o) == Len(o) > 0

Val(o) == o[1]

\* Python truthiness of an optional string: present and not "".
Truthy(o) == Has(o) /\ Val(o) # ""

\* int(x or 1)
IntOr1(o) == IF Has(o) /\ Val(o) # 0 THEN Val(o) ELSE 1

RECURSIVE Flatten(_)
Flatten(ss) == IF ss = <<>> THEN <<>> ELSE Head(ss) \o Flatten(Tail(ss))

\* ------------------------------------------------------------ the document
EmptyLoc ==
  [col |-> None, rows |-> None, row |-> None, startRow |-> None,
   endRow |-> None, sheetName |-> None]

EmptySlot ==
  [layout |-> None, count |-> None, locations |-> None,
   hasLocation |-> FALSE, loc |-> EmptyLoc]

Point(r, c) == [row |-> r, col |-> c]

\* slot.get("location", {}) or {}
SlotLoc(slot) == IF slot.hasLocation THEN slot.loc ELSE EmptyLoc

\* ----------------------------------------------------------------- resolve
\* A _find_in_path that walks the path from the root: the outermost node wins.
RECURSIVE FindInPathOutermost(_, _, _)
FindInPathOutermost(d, path, prop) ==
  IF path = <<>> THEN None
  ELSE LET n == d.nodes[path[1]] IN
       IF prop = "layout" /\ Has(n.layout) THEN n.layout
       ELSE IF prop = "sheetName" /\ Has(n.sheetName) THEN n.sheetName
       ELSE FindInPathOutermost(d, Tail(path), prop)

\* _find_in_path: the value of prop on the innermost node of path that has the
\* key, or None.
RECURSIVE FindInPath(_, _, _)
FindInPath(d, path, prop) ==
  IF path = <<>> THEN None
  ELSE LET n == d.nodes[path[Len(path)]] IN
       IF prop = "layout" /\ Has(n.layout) THEN n.layout
       ELSE IF prop = "sheetName" /\ Has(n.sheetName) THEN n.sheetName
       ELSE FindInPath(d, SubSeq(path, 1, Len(path) - 1), prop)

\* A layout resolution that looks at the path before the slot's own layout.
ResolveLayoutPathFirst(d, slot, path) ==
  LET f == FindInPath(d, path, "layout") IN
  IF Truthy(f) THEN Val(f)
  ELSE IF Truthy(slot.layout) THEN Val(slot.layout) ELSE ""

\* slot.get("layout") or _find_in_path(path, "layout") or ""
ResolveLayout(d, slot, path) ==
  IF Truthy(slot.layout) THEN Val(slot.layout)
  ELSE LET f == FindInPath(d, path, "layout") IN
       IF Truthy(f) THEN Val(f) ELSE ""

\* LAYOUT_BLUEPRINTS.get(layout, {}).get("offsets", {})
ResolveOffsets(d, layout) ==
  IF layout \in DOMAIN d.layouts THEN d.layouts[layout] ELSE {}

\* A default column that forgets the owning node's startCol.
DefaultColNoStartCol(loc, node) ==
  IF Has(loc.col) THEN [col |-> IntOr1(loc.col), src |-> "slot"]
  ELSE [col |-> 1, src |-> "node"]

\* The default column of a slot and where it came from (lines 1581-1589).
DefaultCol(loc, node) ==
  IF Has(loc.col) THEN [col |-> IntOr1(loc.col), src |-> "slot"]
  ELSE IF Has(node.startCol) THEN [col |-> IntOr1(node.startCol), src |-> "node"]
  ELSE [col |-> 1, src |-> "node"]

\* loc.get("sheetName") or current_sheet or "Sheet1"
ResolveSheet(loc, current_sheet) ==
  IF Truthy(loc.sheetName) THEN Val(loc.sheetName)
  ELSE IF Truthy(current_sheet) THEN Val(current_sheet)
  ELSE "Sheet1"

\* An expansion whose row range is as long as the slot's count says.
SlotPointsByCount(slot, node) ==
  LET loc == SlotLoc(slot)
      dc  == DefaultCol(loc, node)
      pt(r, c, st, ix, cs) ==
        [row |-> r, col |-> c, coord_strategy |-> st, coord_index |-> ix,
         col_source |-> cs]
  IN
  IF Has(slot.locations) THEN
    [i \in 1..Len(Val(slot.locations)) |->
       LET lc == Val(slot.locations)[i] IN
       pt(IF Has(lc.row) THEN Val(lc.row) ELSE 1,
          IF Has(lc.col) THEN Val(lc.col) ELSE dc.col,
          "locations", Some(i - 1),
          IF Has(lc.col) THEN "loc"
          ELSE IF Has(loc.col) THEN "slot" ELSE "node")]
  ELSE IF Has(loc.rows) THEN
    [i \in 1..Len(Val(loc.rows)) |->
       pt(Val(loc.rows)[i], dc.col, "rows", Some(i - 1), dc.src)]
  ELSE IF Has(loc.row) THEN
    << pt(Val(loc.row), dc.col, "row", None, dc.src) >>
  ELSE IF Has(loc.startRow) /\ Has(loc.endRow) THEN
    LET startR == Val(loc.startRow)
        endR   == Val(loc.endRow)
        n      == IF Has(slot.count) THEN Val(slot.count)
                  ELSE IF endR >= startR THEN endR - startR + 1 ELSE 0
    IN [k \in 1..n |-> pt(startR + k - 1, dc.col, "range", Some(k - 1), dc.src)]
  ELSE <<>>

\* An expansion that tests location.rows before the slot's locations.
SlotPointsRowsFirst(slot, node) ==
  LET loc == SlotLoc(slot)
      dc  == DefaultCol(loc, node)
      pt(r, c, st, ix, cs) ==
        [row |-> r, col |-> c, coord_strategy |-> st, coord_index |-> ix,
         col_source |-> cs]
  IN
  IF Has(loc.rows) THEN
    [i \in 1..Len(Val(loc.rows)) |->
       pt(Val(loc.rows)[i], dc.col, "rows", Some(i - 1), dc.src)]
  ELSE IF Has(slot.locations) THEN
    [i \in 1..Len(Val(slot.locations)) |->
       LET lc == Val(slot.locations)[i] IN
       pt(IF Has(lc.row) THEN Val(lc.row) ELSE 1,
          IF Has(lc.col) THEN Val(lc.col) ELSE dc.col,
          "locations", Some(i - 1),
          IF Has(lc.col) THEN "loc"
          ELSE IF Has(loc.col) THEN "slot" ELSE "node")]
  ELSE IF Has(loc.row) THEN
    << pt(Val(loc.row), dc.col, "row", None, dc.src) >>
  ELSE IF Has(loc.startRow) /\ Has(loc.endRow) THEN
    LET startR == Val(loc.startRow)
        endR   == Val(loc.endRow)
        n      == IF endR >= startR THEN endR - startR + 1 ELSE 0
    IN [k \in 1..n |-> pt(startR + k - 1, dc.col, "range", Some(k - 1), dc.src)]
  ELSE <<>>

\* The (row, col, strategy, index, col_source) points a slot expands into, in
\* the fixed precedence locations > rows > row > startRow/endRow.
SlotPoints(slot, node) ==
  LET loc == SlotLoc(slot)
      dc  == DefaultCol(loc, node)
      pt(r, c, st, ix, cs) ==
        [row |-> r, col |-> c, coord_strategy |-> st, coord_index |-> ix,
         col_source |-> cs]
  IN
  IF Has(slot.locations) THEN
    [i \in 1..Len(Val(slot.locations)) |->
       LET lc == Val(slot.locations)[i] IN
       pt(IF Has(lc.row) THEN Val(lc.row) ELSE 1,
          IF Has(lc.col) THEN Val(lc.col) ELSE dc.col,
          "locations", Some(i - 1),
          IF Has(lc.col) THEN "loc"
          ELSE IF Has(loc.col) THEN "slot" ELSE "node")]
  ELSE IF Has(loc.rows) THEN
    [i \in 1..Len(Val(loc.rows)) |->
       pt(Val(loc.rows)[i], dc.col, "rows", Some(i - 1), dc.src)]
  ELSE IF Has(loc.row) THEN
    << pt(Val(loc.row), dc.col, "row", None, dc.src) >>
  ELSE IF Has(loc.startRow) /\ Has(loc.endRow) THEN
    LET startR == Val(loc.startRow)
        endR   == Val(loc.endRow)
        n      == IF endR >= startR THEN endR - startR + 1 ELSE 0
    IN [k \in 1..n |-> pt(startR + k - 1, dc.col, "range", Some(k - 1), dc.src)]
  ELSE <<>>

\* _expand_slot: the instances of slot sid, owned by node nid at the end of path.
ExpandSlot(d, sid, path, current_sheet, nid, origin, origin_name, slot_index) ==
  LET slot   == d.slots[sid]
      node   == d.nodes[nid]
      layout == ResolveLayout(d, slot, path)
      sheet  == ResolveSheet(SlotLoc(slot), current_sheet)
      pts    == SlotPoints(slot, node)
  IN [i \in 1..Len(pts) |->
       [sheet |-> sheet, row |-> pts[i].row, col |-> pts[i].col,
        layout |-> layout, offsets |-> ResolveOffsets(d, layout),
        node_path_names |-> [j \in 1..Len(path) |-> d.nodes[path[j]].name],
        node_ref |-> nid, slot_ref |-> sid,
        origin |-> origin, origin_name |-> origin_name,
        slot_index |-> slot_index,
        coord_strategy |-> pts[i].coord_strategy,
        coord_index |-> pts[i].coord_index,
        col_source |-> pts[i].col_source]]

\* node.get("slots", []) or []
NodeSlots(node) == IF Has(node.slots) THEN Val(node.slots) ELSE <<>>

\* A lookup that falls back to template T1 when the named one is missing.
BlueprintSlotsFallback(d, node) ==
  IF ~Truthy(node.useSlotsFrom) THEN <<>>
  ELSE IF Val(node.useSlotsFrom) \in DOMAIN d.templates
  THEN d.templates[Val(node.useSlotsFrom)]
  ELSE IF "T1" \in DOMAIN d.templates THEN d.templates["T1"] ELSE <<>>

\* The template a node inherits: useSlotsFrom truthy and an existing key of
\* SLOT_BLUEPRINTS, else no slots.
BlueprintSlots(d, node) ==
  IF Truthy(node.useSlotsFrom) /\ Val(node.useSlotsFrom) \in DOMAIN d.templates
  THEN d.templates[Val(node.useSlotsFrom)] ELSE <<>>

\* A visit that reports template slots with origin "node".
NodeInstancesAllNode(d, nid, path2) ==
  LET node == d.nodes[nid]
      current_sheet == FindInPath(d, path2, "sheetName")
      own == NodeSlots(node)
      bps == BlueprintSlots(d, node)
  IN Flatten([i \in 1..Len(own) |->
                ExpandSlot(d, own[i], path2, current_sheet, nid, "node", None, i - 1)])
     \o
     Flatten([i \in 1..Len(bps) |->
                ExpandSlot(d, bps[i], path2, current_sheet, nid, "node",
                           node.useSlotsFrom, i - 1)])

\* A visit that expands the blueprint slots before the node's own slots.
NodeInstancesBlueprintFirst(d, nid, path2) ==
  LET node == d.nodes[nid]
      current_sheet == FindInPath(d, path2, "sheetName")
      own == NodeSlots(node)
      bps == BlueprintSlots(d, node)
  IN Flatten([i \in 1..Len(bps) |->
                ExpandSlot(d, bps[i], path2, current_sheet, nid, "blueprint",
                           node.useSlotsFrom, i - 1)])
     \o
     Flatten([i \in 1..Len(own) |->
                ExpandSlot(d, own[i], path2, current_sheet, nid, "node", None, i - 1)])

\* One node's own instances: node slots, then blueprint slots (lines 1636-1643).
NodeInstances(d, nid, path2) ==
  LET node == d.nodes[nid]
      current_sheet == FindInPath(d, path2, "sheetName")
      own == NodeSlots(node)
      bps == BlueprintSlots(d, node)
  IN Flatten([i \in 1..Len(own) |->
                ExpandSlot(d, own[i], path2, current_sheet, nid, "node", None, i - 1)])
     \o
     Flatten([i \in 1..Len(bps) |->
                ExpandSlot(d, bps[i], path2, current_sheet, nid, "blueprint",
                           node.useSlotsFrom, i - 1)])

\* resolve_nodes.visit: depth-first, pre-order.
RECURSIVE Visit(_, _, _)
Visit(d, nodes_, path) ==
  IF nodes_ = <<>> THEN <<>>
  ELSE LET nid   == Head(nodes_)
           path2 == Append(path, nid)
       IN NodeInstances(d, nid, path2)
          \o Visit(d, d.nodes[nid].children, path2)
          \o Visit(d, Tail(nodes_), path)

ResolveNodes(d, nodes) == Visit(d, nodes, <<>>)

\* resolve(): over ORGANIZATION_HIERARCHY.
Resolve(d) == ResolveNodes(d, d.roots)

\* -------------------------------------------------------------- apply_move
\* A column policy that forgets the '"col" in loc' test.
ColumnToSlotNoOwnCol(loc, inst, prefer_slot_col_override) ==
  prefer_slot_col_override \/ inst.col_source = "node"

\* A column test without the col_source disjunct.
ColumnToSlotFlagOrOwnCol(loc, inst, prefer_slot_col_override) ==
  Has(loc.col) \/ prefer_slot_col_override

\* The column write policy's test (lines 1692, 1700, 1714).
ColumnToSlot(loc, inst, prefer_slot_col_override) ==
  Has(loc.col) \/ prefer_slot_col_override \/ inst.col_source = "node"

\* "if new_col is not None: ..." : the location dict and the owning node after
\* the column write.
ApplyColumn(loc, node, inst, new_col, prefer_slot_col_override) ==
  IF ~Has(new_col) THEN [loc |-> loc, node |-> node]
  ELSE IF ColumnToSlot(loc, inst, prefer_slot_col_override)
       THEN [loc |-> [loc EXCEPT !.col = new_col], node |-> node]
       ELSE [loc |-> loc, node |-> [node EXCEPT !.startCol = new_col]]

\* A row-list move that is applied to node-owned slots only.
MoveRowsNodeOnly(loc, inst, new_row) ==
  LET rows == IF Has(loc.rows) THEN Val(loc.rows) ELSE <<>> IN
  IF inst.origin = "node" /\ Has(inst.coord_index) /\ 0 <= Val(inst.coord_index)
     /\ Val(inst.coord_index) < Len(rows)
  THEN [loc EXCEPT !.rows = Some([rows EXCEPT ![Val(inst.coord_index) + 1] = new_row])]
  ELSE loc

\* A row-list move that shifts the whole list by the moved entry's delta.
MoveRowsShiftAll(loc, inst, new_row) ==
  LET rows == IF Has(loc.rows) THEN Val(loc.rows) ELSE <<>> IN
  IF Has(inst.coord_index) /\ 0 <= Val(inst.coord_index)
     /\ Val(inst.coord_index) < Len(rows)
  THEN LET delta == new_row - rows[Val(inst.coord_index) + 1]
       IN [loc EXCEPT !.rows = Some([k \in 1..Len(rows) |-> rows[k] + delta])]
  ELSE loc

\* rows[coord_index] = new_row when the index is in bounds (lines 1688-1690).
MoveRows(loc, inst, new_row) ==
  LET rows == IF Has(loc.rows) THEN Val(loc.rows) ELSE <<>> IN
  IF Has(inst.coord_index) /\ 0 <= Val(inst.coord_index)
     /\ Val(inst.coord_index) < Len(rows)
  THEN [loc EXCEPT !.rows = Some([rows EXCEPT ![Val(inst.coord_index) + 1] = new_row])]
  ELSE loc

\* A range move by the distance between the new row and the row the instance
\* was resolved at.
MoveRangeByInstanceRow(loc, inst, new_row) ==
  LET startR == IF Has(loc.startRow) THEN Val(loc.startRow) ELSE inst.row
      endR   == IF Has(loc.endRow) THEN Val(loc.endRow) ELSE inst.row
      delta  == new_row - inst.row
  IN [loc EXCEPT !.startRow = Some(startR + delta), !.endRow = Some(endR + delta)]

\* A range move that writes startRow and leaves endRow where it was.
MoveRangeStartOnly(loc, inst, new_row) ==
  LET startR == IF Has(loc.startRow) THEN Val(loc.startRow) ELSE inst.row
      index  == IF Has(inst.coord_index) THEN Val(inst.coord_index) ELSE 0
      desired_start == new_row - index
      delta  == desired_start - startR
  IN [loc EXCEPT !.startRow = Some(startR + delta)]

\* A range move that forgets the instance's offset in the range.
MoveRangeNoIndex(loc, inst, new_row) ==
  LET startR == IF Has(loc.startRow) THEN Val(loc.startRow) ELSE inst.row
      endR   == IF Has(loc.endRow) THEN Val(loc.endRow) ELSE inst.row
      delta  == new_row - startR
  IN [loc EXCEPT !.startRow = Some(startR + delta), !.endRow = Some(endR + delta)]

\* The range branch's row update (lines 1706-1712).
MoveRange(loc, inst, new_row) ==
  LET startR == IF Has(loc.startRow) THEN Val(loc.startRow) ELSE inst.row
      endR   == IF Has(loc.endRow) THEN Val(loc.endRow) ELSE inst.row
      index  == IF Has(inst.coord_index) THEN Val(inst.coord_index) ELSE 0
      desired_start == new_row - index
      delta  == desired_start - startR
  IN [loc EXCEPT !.startRow = Some(startR + delta), !.endRow = Some(endR + delta)]

\* Whether slot["locations"][coord_index] raises IndexError (line 1684).
LocationsIndexError(slot, inst) ==
  /\ Has(slot.locations) /\ Has(inst.coord_index)
  /\ Val(inst.coord_index) >= Len(Val(slot.locations))

\* A locations branch that also stores the new column in the slot's location.
MoveLocationsSlotCol(slot, inst, new_row, new_col) ==
  IF Has(slot.locations) /\ Has(inst.coord_index)
  THEN LET i  == Val(inst.coord_index) + 1
           p1 == [Val(slot.locations)[i] EXCEPT !.row = Some(new_row)]
           p2 == IF Has(new_col) THEN [p1 EXCEPT !.col = new_col] ELSE p1
       IN [slot EXCEPT !.locations = Some([Val(slot.locations) EXCEPT ![i] = p2]),
                       !.hasLocation = IF Has(new_col) THEN TRUE ELSE @,
                       !.loc = IF Has(new_col) THEN [@ EXCEPT !.col = new_col] ELSE @]
  ELSE slot

\* The locations branch (lines 1683-1686): row, then col, of the indexed point.
MoveLocations(slot, inst, new_row, new_col) ==
  IF Has(slot.locations) /\ Has(inst.coord_index)
  THEN LET i  == Val(inst.coord_index) + 1
           p1 == [Val(slot.locations)[i] EXCEPT !.row = Some(new_row)]
           p2 == IF Has(new_col) THEN [p1 EXCEPT !.col = new_col] ELSE p1
       IN [slot EXCEPT !.locations = Some([Val(slot.locations) EXCEPT ![i] = p2])]
  ELSE slot

\* apply_move: the document after the call, and whether the call raised.
ApplyMove(d, instance, new_row, new_col, prefer_slot_col_override) ==
  LET sid  == instance.slot_ref
      nid  == instance.node_ref
      slot == d.slots[sid]
      node == d.nodes[nid]
      loc  == SlotLoc(slot)
      Written(loc1) ==
        LET w == ApplyColumn(loc1, node, instance, new_col, prefer_slot_col_override)
        IN [doc |-> [d EXCEPT !.slots[sid] =
                          [slot EXCEPT !.hasLocation = TRUE, !.loc = w.loc],
                        !.nodes[nid] = w.node],
            raised |-> FALSE]
  IN
  IF instance.coord_strategy = "locations" THEN
    IF LocationsIndexError(slot, instance)
    THEN [doc |-> d, raised |-> TRUE]
    ELSE [doc |-> [d EXCEPT !.slots[sid] =
                       MoveLocations(slot, instance, new_row, new_col)],
          raised |-> FALSE]
  ELSE IF instance.coord_strategy = "rows" THEN
    Written(MoveRows(loc, instance, new_row))
  ELSE IF instance.coord_strategy = "row" THEN
    Written([loc EXCEPT !.row = Some(new_row)])
  ELSE IF instance.coord_strategy = "range" THEN
    Written(MoveRange(loc, instance, new_row))
  ELSE [doc |-> d, raised |-> FALSE]

\* ------------------------------------------------------------------ detach
\* dict_deepcopy: json.loads(json.dumps(d)) of a slot dict rebuilds every
\* container; the values (ints, strings, lists, string-keyed dicts) survive.
DictDeepcopy(slot) ==
  [layout |-> slot.layout, count |-> slot.count,
   locations |-> IF Has(slot.locations)
                 THEN Some([i \in 1..Len(Val(slot.locations)) |->
                              Point(Val(slot.locations)[i].row,
                                    Val(slot.locations)[i].col)])
                 ELSE None,
   hasLocation |-> slot.hasLocation,
   loc |-> [col |-> slot.loc.col,
            rows |-> IF Has(slot.loc.rows)
                     THEN Some([i \in 1..Len(Val(slot.loc.rows)) |->
                                  Val(slot.loc.rows)[i]])
                     ELSE None,
            row |-> slot.loc.row, startRow |-> slot.loc.startRow,
            endRow |-> slot.loc.endRow, sheetName |-> slot.loc.sheetName]]

\* "if slots is None" in place of "if not slots": an empty template passes.
NoSlotsMissingOnly(d, bp_name) == Val(bp_name) \notin DOMAIN d.templates

\* "if not slots: return False" (lines 1724-1726): the named template is
\* missing or empty.
NoSlots(d, bp_name) ==
  \/ Val(bp_name) \notin DOMAIN d.templates
  \/ d.templates[Val(bp_name)] = <<>>

\* A shallow detach, list(slots): the node's list holds the template's dicts.
SharedSlotIds(d, slots) == slots

\* The slot dicts [dict_deepcopy(s) for s in slots] puts in the node's list:
\* fresh dicts, allocated after the existing ones.
CopiedSlotIds(d, slots) == [i \in 1..Len(slots) |-> Len(d.slots) + i]

\* A detach that forgets node.pop("useSlotsFrom").
DetachedNodeKeepsRef(node, copies) == [node EXCEPT !.slots = Some(copies)]

\* The node after lines 1727-1728: "slots" is assigned the list of copies and
\* "useSlotsFrom" is popped.
DetachedNode(node, copies) ==
  [node EXCEPT !.slots = Some(copies), !.useSlotsFrom = None]

\* detach_blueprint_for_node: the document after the call and its return value.
DetachBlueprintForNode(d, nid) ==
  LET node    == d.nodes[nid]
      bp_name == node.useSlotsFrom
  IN
  IF ~Truthy(bp_name) THEN [doc |-> d, ret |-> FALSE]
  ELSE IF NoSlots(d, bp_name) THEN [doc |-> d, ret |-> FALSE]
  ELSE LET slots == d.templates[Val(bp_name)] IN
       [doc |-> [d EXCEPT
                   !.slots = d.slots \o
                             [i \in 1..Len(slots) |-> DictDeepcopy(d.slots[slots[i]])],
                   !.nodes[nid] = DetachedNode(node, CopiedSlotIds(d, slots))],
        ret |-> TRUE]

\* ---------------------------------------------------------- initial documents
NodeIds == 1..4

InitSlots ==
  << \* 1: the root's slot, two explicit points
     [EmptySlot EXCEPT !.locations =
        Some(<< Point(Some(1), Some(2)), Point(Some(2), None) >>)],
     \* 2, 3: template T1 (a row list and a row range, as in default())
     [EmptySlot EXCEPT !.hasLocation = TRUE, !.count = Some(1),
                       !.loc = [EmptyLoc EXCEPT !.rows = Some(<<3>>)]],
     [EmptySlot EXCEPT !.hasLocation = TRUE, !.layout = Some("L1"),
                       !.count = Some(2),
                       !.loc = [EmptyLoc EXCEPT !.startRow = Some(1),
                                                !.endRow = Some(2)]],
     \* 4, 5: node B's own slots, first variant
     [EmptySlot EXCEPT !.hasLocation = TRUE,
                       !.loc = [EmptyLoc EXCEPT !.row = Some(1)]],
     [EmptySlot EXCEPT !.hasLocation = TRUE,
                       !.loc = [EmptyLoc EXCEPT !.rows = Some(<<1, 2>>)]],
     \* 6: node B's own slot, second variant (own column)
     [EmptySlot EXCEPT !.hasLocation = TRUE,
                       !.loc = [EmptyLoc EXCEPT !.startRow = Some(2),
                                                !.endRow = Some(3),
                                                !.col = Some(4)]],
     \* 7: node D's slot (own column and sheet)
     [EmptySlot EXCEPT !.hasLocation = TRUE,
                       !.loc = [EmptyLoc EXCEPT !.row = Some(2), !.col = Some(4),
                                                !.sheetName = Some("S4")]] >>

\* DEFAULT_RANKS, shortened to two entries; a text is the sequence of its
\* characters.
DEFAULT_RANKS ==
  << [abbr |-> Some(<<"A">>), name |-> Some(<<"A", "a">>)],
     [abbr |-> Some(<<"B">>), name |-> Some(<<"B", "b">>)] >>

\* The sheet-name settings validate() looks for.
SheetKeys ==
  <<"RECRUITMENT_LOG_SHEET_NAME", "EVENT_LOG_SHEET_NAME", "ATTENDANCE_SHEET_NAME">>

\* default()'s values of those settings.
DefaultSettings ==
  [k \in {SheetKeys[i] : i \in 1..Len(SheetKeys)} |-> Some("Logbook")]

EmptyNode ==
  [name |-> "", sheetName |-> None, layout |-> None, startCol |-> None,
   useSlotsFrom |-> None, slots |-> None, children |-> <<>>]

\* The documents the model starts from: a root A with children B and C, B with
\* child D; C inherits template T1; B's template reference, own slots and
\* startCol vary.
InitDoc(use, own, sc) ==
  [roots |-> <<1>>,
   nodes |->
     << [EmptyNode EXCEPT !.name = "A", !.sheetName = Some("S1"),
                          !.layout = Some("L1"), !.startCol = Some(3),
                          !.slots = Some(<<1>>), !.children = <<2, 3>>],
        [EmptyNode EXCEPT !.name = "B", !.useSlotsFrom = use, !.slots = own,
                          !.startCol = sc, !.children = <<4>>],
        [EmptyNode EXCEPT !.name = "C", !.sheetName = Some("S3"),
                          !.layout = Some("LX"), !.useSlotsFrom = Some("T1")],
        [EmptyNode EXCEPT !.name = "D", !.slots = Some(<<7>>)] >>,
   slots |-> InitSlots,
   templates |-> ("T1" :> <<2, 3>>) @@ ("TE" :> <<>>),
   layouts |-> ("L1" :> {[key |-> "username", row |-> 0, col |-> 1]}),
   ranks |-> DEFAULT_RANKS,
   settings |-> DefaultSettings]

\* B's (useSlotsFrom, slots, location.startCol) in the initial documents.
InitConfigs ==
  { <<Some("T1"), None, Some(3)>>,
    <<Some("T1"), Some(<<4, 5>>), Some(3)>>,
    <<Some("T1"), Some(<<6>>), None>>,
    <<None, Some(<<4, 5>>), None>>,
    <<Some("TE"), Some(<<6>>), Some(3)>>,
    <<Some("TX"), Some(<<4, 5>>), Some(3)>> }

NoOp ==
  [op |-> "none", inst |-> None, row |-> 0, col |-> None, prefer |-> FALSE,
   node |-> 0, ret |-> FALSE, raised |-> FALSE, again |-> FALSE,
   layout |-> "", errors |-> <<>>, warnings |-> <<>>]

\* A resolve that reads with slot.setdefault("location", {}) instead of get.
ResolveEffectSetdefault(d) ==
  [d EXCEPT !.slots = [i \in 1..Len(d.slots) |->
                         [d.slots[i] EXCEPT !.hasLocation = TRUE]]]

\* The document after resolve(): resolve_nodes and _expand_slot only read it
\* (dict.get, "in", indexing, iteration); nothing is assigned into it.
ResolveEffect(d) == d

Init ==
  /\ \E c \in InitConfigs : doc = InitDoc(c[1], c[2], c[3])
  /\ insts = Resolve(doc)
  /\ selected = None
  /\ pre = doc
  /\ last = NoOp
  /\ detached = {}
  /\ steps = 0

\* ------------------------------------------------------------------ actions
\* resolve(), as in refresh(): self.instances = self.resolver.resolve().
Refresh ==
  /\ steps < MaxOps
  /\ insts' = Resolve(doc)
  /\ doc' = ResolveEffect(doc)
  /\ pre' = doc
  /\ last' = [NoOp EXCEPT !.op = "resolve"]
  /\ UNCHANGED <<selected, detached, steps>>

\* The caller keeps one of the resolved instances (_on_pick: self.selected).
Pick ==
  /\ steps < MaxOps
  /\ \E i \in 1..Len(insts) : selected' = Some(insts[i])
  /\ UNCHANGED <<doc, insts, pre, last, detached, steps>>

\* apply_move(selected, new_row, new_col, prefer_slot_col_override)
ApplyMoveCall ==
  /\ steps < MaxOps
  /\ Has(selected)
  /\ \E new_row \in 1..MaxRow,
        new_col \in {None} \cup {Some(c) : c \in 1..MaxCol},
        prefer \in BOOLEAN :
       \* the flag is read only when a column is given
       /\ (new_col = None => ~prefer)
       /\ LET res == ApplyMove(doc, Val(selected), new_row, new_col, prefer) IN
          /\ doc' = res.doc
          /\ last' = [NoOp EXCEPT !.op = "apply_move", !.inst = selected,
                                  !.row = new_row, !.col = new_col,
                                  !.prefer = prefer, !.raised = res.raised,
                                  !.again = /\ last.op = "apply_move"
                                            /\ last.inst = selected
                                            /\ last.row = new_row
                                            /\ last.col = new_col
                                            /\ last.prefer = prefer]
  /\ pre' = doc
  /\ steps' = steps + 1
  /\ UNCHANGED <<insts, selected, detached>>

\* detach_blueprint_for_node(node)
DetachCall ==
  /\ steps < MaxOps
  /\ \E nid \in NodeIds :
       LET res == DetachBlueprintForNode(doc, nid) IN
       /\ doc' = res.doc
       /\ last' = [NoOp EXCEPT !.op = "detach", !.node = nid, !.ret = res.ret,
                               !.again = (nid \in detached)]
       /\ detached' = IF res.ret THEN detached \cup {nid} ELSE detached
  /\ pre' = doc
  /\ steps' = steps + 1
  /\ UNCHANGED <<insts, selected>>

\* The host shortens, in place, the list the selected instance was resolved
\* from (slot.locations or location.rows) between resolve() and the edit.
HostShrink ==
  /\ steps < MaxOps
  /\ Has(selected)
  /\ LET sid  == Val(selected).slot_ref
         slot == doc.slots[sid]
         cut(s) == SubSeq(s, 1, Len(s) - 1)
     IN
     /\ \/ /\ Val(selected).coord_strategy = "locations"
           /\ Has(slot.locations) /\ Len(Val(slot.locations)) > 0
           /\ doc' = [doc EXCEPT !.slots[sid].locations =
                                   Some(cut(Val(slot.locations)))]
        \/ /\ Val(selected).coord_strategy = "rows"
           /\ slot.hasLocation /\ Has(slot.loc.rows) /\ Len(Val(slot.loc.rows)) > 0
           /\ doc' = [doc EXCEPT !.slots[sid].loc.rows =
                                   Some(cut(Val(slot.loc.rows)))]
     /\ last' = [NoOp EXCEPT !.op = "shrink", !.inst = selected]
  /\ pre' = doc
  /\ steps' = steps + 1
  /\ UNCHANGED <<insts, selected, detached>>

Next == Refresh \/ Pick \/ ApplyMoveCall \/ DetachCall \/ HostShrink

Spec == Init /\ [][Next]_vars

\* ---------------------------------------------------------------- validate
\* The iteration order of SLOT_BLUEPRINTS: the order of the keys in the
\* document (dict order), here the order the documents below are written in.
BlueprintOrder == <<"T1", "STD", "TE">>

BlueprintKeys(d) ==
  LET In(k) == k \in DOMAIN d.templates IN SelectSeq(BlueprintOrder, In)

\* One message of validate()'s errors list: what it is about (a template's
\* slot, a node's layout, a node's useSlotsFrom), the template or node it
\* names, the node's path, and the missing name.
Error(kind, owner, at, ref) ==
  [kind |-> kind, owner |-> owner, at |-> at, ref |-> ref]

\* str.lower() on the characters rank texts are written with.
Lower(s) ==
  [i \in 1..Len(s) |-> CASE s[i] = "A" -> "a" [] s[i] = "B" -> "b"
                          [] OTHER -> s[i]]

\* str.strip(): leading and trailing blanks removed, inner ones kept.
RECURSIVE Strip(_)
Strip(s) ==
  IF s = <<>> THEN s
  ELSE IF Head(s) = " " THEN Strip(Tail(s))
  ELSE IF s[Len(s)] = " " THEN Strip(SubSeq(s, 1, Len(s) - 1))
  ELSE s

\* (r.get(key) or "").strip().lower()
Normal(o) == IF Has(o) THEN Lower(Strip(Val(o))) ELSE <<>>

\* A rank loop that files a repeated abbreviation under errors.
RECURSIVE RankChecksAbbrError(_, _, _, _)
RankChecksAbbrError(ranks, i, seen_names, seen_abbr) ==
  IF i > Len(ranks) THEN [errors |-> <<>>, warnings |-> <<>>]
  ELSE LET name == Normal(ranks[i].name)
           abbr == Normal(ranks[i].abbr)
           rest == RankChecksAbbrError(ranks, i + 1, seen_names \cup {name},
                     IF abbr # <<>> THEN seen_abbr \cup {abbr} ELSE seen_abbr)
       IN [errors |->
             (IF name = <<>>
              THEN << Error("rank_empty_name", "", <<i>>, "") >> ELSE <<>>)
             \o (IF name \in seen_names
                 THEN << Error("rank_duplicate_name", "", <<i>>, "") >>
                 ELSE <<>>)
             \o (IF abbr # <<>> /\ abbr \in seen_abbr
                 THEN << Error("rank_duplicate_abbr", "", <<i>>, "") >>
                 ELSE <<>>)
             \o rest.errors,
           warnings |-> rest.warnings]

\* "Ranks must be unique by name/abbr" (lines 300-313), from entry i on: the
\* errors and the warnings, each message with the position of its entry.
RECURSIVE RankChecks(_, _, _, _)
RankChecks(ranks, i, seen_names, seen_abbr) ==
  IF i > Len(ranks) THEN [errors |-> <<>>, warnings |-> <<>>]
  ELSE LET name == Normal(ranks[i].name)
           abbr == Normal(ranks[i].abbr)
           rest == RankChecks(ranks, i + 1, seen_names \cup {name},
                     IF abbr # <<>> THEN seen_abbr \cup {abbr} ELSE seen_abbr)
       IN [errors |->
             (IF name = <<>>
              THEN << Error("rank_empty_name", "", <<i>>, "") >> ELSE <<>>)
             \o (IF name \in seen_names
                 THEN << Error("rank_duplicate_name", "", <<i>>, "") >>
                 ELSE <<>>)
             \o rest.errors,
           warnings |->
             (IF abbr # <<>> /\ abbr \in seen_abbr
              THEN << Error("rank_duplicate_abbr", "", <<i>>, "") >>
              ELSE <<>>)
             \o rest.warnings]

\* The iteration order of LAYOUT_BLUEPRINTS (dict order).
LayoutOrder == <<"L1", "L2">>

\* "Layouts: username offset is recommended" (lines 315-319).
LayoutWarnings(d) ==
  LET In(k) == k \in DOMAIN d.layouts
      keys == SelectSeq(LayoutOrder, In)
  IN Flatten([k \in 1..Len(keys) |->
                IF \E o \in d.layouts[keys[k]] : o.key = "username" THEN <<>>
                ELSE << Error("layout_username", keys[k], <<>>, "") >>])

\* "Ensure required sheet keys exist" (lines 343-350).
SettingWarnings(d) ==
  Flatten([k \in 1..Len(SheetKeys) |->
             IF Truthy(d.settings[SheetKeys[k]]) THEN <<>>
             ELSE << Error("setting", SheetKeys[k], <<>>, "") >>])

\* "SLOT_BLUEPRINTS references valid layouts" (lines 321-327).
SlotBlueprintErrors(d) ==
  LET keys == BlueprintKeys(d)
      OfSlot(bp_name, sid) ==
        LET lay == d.slots[sid].layout IN
        IF Truthy(lay) /\ Val(lay) \notin DOMAIN d.layouts
        THEN << Error("slot", bp_name, <<>>, Val(lay)) >> ELSE <<>>
  IN Flatten([k \in 1..Len(keys) |->
                Flatten([i \in 1..Len(d.templates[keys[k]]) |->
                           OfSlot(keys[k], d.templates[keys[k]][i])])])

\* A validate() whose visit forgets the recursion into children.
RECURSIVE ValidateVisitNoChildren(_, _, _)
ValidateVisitNoChildren(d, nodes_, path) ==
  IF nodes_ = <<>> THEN <<>>
  ELSE LET n == d.nodes[Head(nodes_)] IN
       (IF Truthy(n.layout) /\ Val(n.layout) \notin DOMAIN d.layouts
        THEN << Error("node_layout", n.name, Append(path, n.name), Val(n.layout)) >>
        ELSE <<>>)
       \o (IF Truthy(n.useSlotsFrom) /\ Val(n.useSlotsFrom) \notin DOMAIN d.templates
           THEN << Error("node_blueprint", n.name, <<>>, Val(n.useSlotsFrom)) >>
           ELSE <<>>)
       \o ValidateVisitNoChildren(d, Tail(nodes_), path)

\* validate.visit (lines 330-340): the node's layout, its useSlotsFrom, then
\* its children.
RECURSIVE ValidateVisit(_, _, _)
ValidateVisit(d, nodes_, path) ==
  IF nodes_ = <<>> THEN <<>>
  ELSE LET n == d.nodes[Head(nodes_)] IN
       (IF Truthy(n.layout) /\ Val(n.layout) \notin DOMAIN d.layouts
        THEN << Error("node_layout", n.name, Append(path, n.name), Val(n.layout)) >>
        ELSE <<>>)
       \o (IF Truthy(n.useSlotsFrom) /\ Val(n.useSlotsFrom) \notin DOMAIN d.templates
           THEN << Error("node_blueprint", n.name, <<>>, Val(n.useSlotsFrom)) >>
           ELSE <<>>)
       \o (IF n.children # <<>>
           THEN ValidateVisit(d, n.children, Append(path, n.name)) ELSE <<>>)
       \o ValidateVisit(d, Tail(nodes_), path)

\* validate(): the errors in the order they are appended (ranks, templates,
\* then the organization tree).
Validate(d) ==
  RankChecks(d.ranks, 1, {}, {}).errors
  \o SlotBlueprintErrors(d) \o ValidateVisit(d, d.roots, <<>>)

\* validate(): the warnings in the order they are appended.
ValidateWarnings(d) ==
  RankChecks(d.ranks, 1, {}, {}).warnings
  \o LayoutWarnings(d) \o SettingWarnings(d)

\* The document after validate(): cfg is only read (get, items, "in").
ValidateEffect(d) == d

\* remove_layout(name) (lines 267-269).
RemoveLayout(d, name) ==
  IF name \in DOMAIN d.layouts
  THEN [d EXCEPT !.layouts = [l \in DOMAIN d.layouts \ {name} |-> d.layouts[l]]]
  ELSE d

\* ------------------------------------------- documents for resolve/validate
\* The slot dicts of the documents resolve() and validate() are applied to:
\* every addressing style alone and in combination, with and without a column,
\* a sheet and a layout of their own.
ShapeSlots ==
  << \* 1: explicit points and, in location, a row list and a column
     [EmptySlot EXCEPT !.locations =
                         Some(<< Point(Some(1), Some(2)), Point(Some(2), None) >>),
                       !.hasLocation = TRUE,
                       !.loc = [EmptyLoc EXCEPT !.rows = Some(<<5>>),
                                                !.col = Some(6)]],
     \* 2: a row list and a single row
     [EmptySlot EXCEPT !.hasLocation = TRUE,
                       !.loc = [EmptyLoc EXCEPT !.rows = Some(<<12, 15, 18>>),
                                                !.row = Some(7)]],
     \* 3: a single row and a row range
     [EmptySlot EXCEPT !.hasLocation = TRUE, !.layout = Some("L1"),
                       !.loc = [EmptyLoc EXCEPT !.row = Some(2),
                                                !.startRow = Some(1),
                                                !.endRow = Some(2)]],
     \* 4: a row range, a layout that does not exist, a count unlike its span
     [EmptySlot EXCEPT !.hasLocation = TRUE, !.layout = Some("LX"),
                       !.count = Some(5),
                       !.loc = [EmptyLoc EXCEPT !.startRow = Some(14),
                                                !.endRow = Some(15)]],
     \* 5: startRow without endRow
     [EmptySlot EXCEPT !.hasLocation = TRUE, !.layout = Some("L2"),
                       !.loc = [EmptyLoc EXCEPT !.startRow = Some(1)]],
     \* 6: no location at all
     [EmptySlot EXCEPT !.count = Some(3)],
     \* 7: a row range entered with its end before its start
     [EmptySlot EXCEPT !.hasLocation = TRUE,
                       !.loc = [EmptyLoc EXCEPT !.startRow = Some(3),
                                                !.endRow = Some(1)]],
     \* 8: a row list with a column and a sheet of its own
     [EmptySlot EXCEPT !.hasLocation = TRUE,
                       !.loc = [EmptyLoc EXCEPT !.rows = Some(<<2>>),
                                                !.col = Some(4),
                                                !.sheetName = Some("S4")]],
     \* 9, 10, 11: the slots of default()'s STANDARD_CONTUBERNIUM
     [EmptySlot EXCEPT !.hasLocation = TRUE, !.layout = Some("L1"),
                       !.count = Some(1),
                       !.loc = [EmptyLoc EXCEPT !.rows = Some(<<12>>)]],
     [EmptySlot EXCEPT !.hasLocation = TRUE, !.layout = Some("L1"),
                       !.count = Some(2),
                       !.loc = [EmptyLoc EXCEPT !.startRow = Some(14),
                                                !.endRow = Some(15)]],
     [EmptySlot EXCEPT !.hasLocation = TRUE, !.count = Some(23),
                       !.loc = [EmptyLoc EXCEPT !.startRow = Some(17),
                                                !.endRow = Some(39)]] >>

\* Roots A and E; A has children B and C, B has child D.  a, b and dd are the
\* varying keys of A, B and D; t1 is the slot list of template T1.  E is
\* default()'s leaf: a template reference, a layout and a startCol.
ShapeDoc(a, b, dd, t1) ==
  [roots |-> <<1, 5>>,
   nodes |->
     << [EmptyNode EXCEPT !.name = "A", !.sheetName = a.sheetName,
                          !.layout = a.layout, !.startCol = a.startCol,
                          !.slots = Some(<<1>>), !.children = <<2, 3>>],
        [EmptyNode EXCEPT !.name = "B", !.sheetName = b.sheetName,
                          !.layout = b.layout, !.startCol = b.startCol,
                          !.slots = b.slots, !.useSlotsFrom = b.useSlotsFrom,
                          !.children = <<4>>],
        [EmptyNode EXCEPT !.name = "C", !.layout = Some("L2"),
                          !.useSlotsFrom = Some("T1")],
        [EmptyNode EXCEPT !.name = "D", !.layout = dd.layout,
                          !.slots = dd.slots, !.useSlotsFrom = dd.useSlotsFrom],
        [EmptyNode EXCEPT !.name = "E", !.sheetName = Some("S5"),
                          !.layout = Some("L1"), !.startCol = Some(4),
                          !.useSlotsFrom = Some("STD")] >>,
   slots |-> ShapeSlots,
   templates |-> ("T1" :> t1) @@ ("STD" :> <<9, 10, 11>>) @@ ("TE" :> <<>>),
   layouts |-> ("L1" :> {[key |-> "username", row |-> 0, col |-> 1]})
               @@ ("L2" :> {}),
   ranks |-> DEFAULT_RANKS,
   settings |-> DefaultSettings]

ShapeA ==
  [sheetName : {None, Some("S1")}, layout : {None, Some("L1")},
   startCol : {None, Some(3)}]

\* B's (slots, useSlotsFrom) pairs.
ShapeBSlots ==
  { <<None, Some("T1")>>, <<Some(<<2, 3>>), Some("T1")>>,
    <<Some(<<4, 5, 7>>), None>>, <<Some(<<2, 3>>), Some("TX")>> }

ShapeB ==
  { [sheetName |-> s, layout |-> l, startCol |-> c, slots |-> p[1],
     useSlotsFrom |-> p[2]] :
      s \in {None, Some("S2")}, l \in {None, Some("LX")},
      c \in {None, Some(4)}, p \in ShapeBSlots }

ShapeD ==
  { [layout |-> None, slots |-> Some(<<2>>), useSlotsFrom |-> None],
    [layout |-> Some("LX"), slots |-> Some(<<8, 3, 4>>),
     useSlotsFrom |-> Some("TX")] }

ShapeT1 == { <<2, 4>>, <<8, 7, 6>> }

\* The layout names remove_layout is called with.
LayoutNames == {"L1", "L2", "LX"}

InitResolve ==
  /\ \E a \in ShapeA, b \in ShapeB, dd \in ShapeD, t1 \in ShapeT1 :
       doc = ShapeDoc(a, b, dd, t1)
  /\ insts = Resolve(doc)
  /\ selected = None
  /\ pre = doc
  /\ last = NoOp
  /\ detached = {}
  /\ steps = 0

\* validate(), as the editor's validation panel calls it.
ValidateCall ==
  /\ steps < MaxOps
  /\ doc' = ValidateEffect(doc)
  /\ pre' = doc
  /\ last' = [NoOp EXCEPT !.op = "validate", !.errors = Validate(doc),
                          !.warnings = ValidateWarnings(doc)]
  /\ UNCHANGED <<insts, selected, detached, steps>>

\* remove_layout(name)
RemoveLayoutCall ==
  /\ steps < MaxOps
  /\ \E name \in LayoutNames :
       /\ doc' = RemoveLayout(doc, name)
       /\ last' = [NoOp EXCEPT !.op = "remove_layout", !.layout = name]
  /\ pre' = doc
  /\ steps' = steps + 1
  /\ UNCHANGED <<insts, selected, detached>>

NextResolve == Refresh \/ ValidateCall \/ RemoveLayoutCall

\* resolve() and validate() over the documents above, between layout removals.
SpecResolve == InitResolve /\ [][NextResolve]_vars

\* ------------------------------------------------- documents for the ranks
\* The longest RANK_HIERARCHY validate() is applied to.
MaxRanks == 3

\* The name and abbr values of a rank entry: key absent, empty, and texts that
\* differ in case and in surrounding blanks only.
RankNames == {None, Some(<<>>), Some(<<"a">>), Some(<<" ", "A">>), Some(<<"b">>)}

RankAbbrs == {None, Some(<<>>), Some(<<"a">>), Some(<<"A", " ">>)}

RankEntries == [abbr : RankAbbrs, name : RankNames]

RankLists ==
  UNION {[1..n -> RankEntries] : n \in 0..MaxRanks}

\* The settings of a loaded document: default()'s, or one sheet name blank.
SettingsChoices ==
  {DefaultSettings, [DefaultSettings EXCEPT !["EVENT_LOG_SHEET_NAME"] = Some("")]}

InitRanks ==
  /\ \E rs \in RankLists, st \in SettingsChoices :
       doc = [InitDoc(Some("T1"), None, Some(3)) EXCEPT !.ranks = rs,
                                                        !.settings = st]
  /\ insts = Resolve(doc)
  /\ selected = None
  /\ pre = doc
  /\ last = NoOp
  /\ detached = {}
  /\ steps = 0

NextRanks == ValidateCall

\* validate() over loaded documents with every short rank list.
SpecRanks == InitRanks /\ [][NextRanks]_vars

\* ------------------------------------------------------------------ claims
LastInst == Val(last.inst)

Moved == last.op = "apply_move"

\* The positions of inst in resolve() of document d.
PosIn(d, inst) ==
  LET r == Resolve(d) IN {i \in 1..Len(r) : r[i] = inst}

\* inst is an instance resolve() produces on document d.
FreshIn(d, inst) == PosIn(d, inst) # {}

RowStyles == {"rows", "row", "range"}

\* The spec's three-valued col_source of an instance resolved on d: the code's
\* "node" is "ancestor" when the owning node defines startCol, else "default".
SpecColSource(d, inst) ==
  IF inst.col_source # "node" THEN inst.col_source
  ELSE IF Has(d.nodes[inst.node_ref].startCol) THEN "ancestor" ELSE "default"

\* C1: column blast radius.  When an instance of a node-owned slot without its
\* own col, under a node with startCol, is moved to another column with
\* prefer_slot_col_override = False, then every instance of every node-owned
\* slot of that node without its own col (the moved slot and its siblings) was
\* resolved from the node's column and is at the new column on the next
\* resolve().
C1_ColumnBlastRadius ==
  (/\ Moved /\ ~last.raised
   /\ FreshIn(pre, LastInst)
   /\ LastInst.origin = "node"
   /\ LastInst.coord_strategy \in RowStyles
   /\ Has(last.col) /\ ~last.prefer /\ Val(last.col) # LastInst.col
   /\ Has(pre.nodes[LastInst.node_ref].startCol)
   /\ ~Has(SlotLoc(pre.slots[LastInst.slot_ref]).col))
  => LET before == Resolve(pre)
         after  == Resolve(doc)
     IN \A i \in 1..Len(before) :
          (/\ before[i].node_ref = LastInst.node_ref
           /\ before[i].origin = "node"
           /\ before[i].coord_strategy \in RowStyles
           /\ ~Has(SlotLoc(pre.slots[before[i].slot_ref]).col))
          => /\ SpecColSource(pre, before[i]) = "ancestor"
             /\ Len(after) >= i
             /\ after[i].col = Val(last.col)

\* C2: column write policy.  A move with a new column of a row-list,
\* single-row or row-range instance writes the slot's location.col when the
\* slot defines col, or the flag is set, or the instance's col_source is
\* ancestor; otherwise (col_source default, flag false) it writes the owning
\* node's location.startCol; the other field keeps its value.
C2_ColumnWritePolicy ==
  (/\ Moved /\ Has(last.col)
   /\ FreshIn(pre, LastInst)
   /\ LastInst.coord_strategy \in RowStyles)
  => LET sid == LastInst.slot_ref
         nid == LastInst.node_ref
         toSlot == \/ Has(SlotLoc(pre.slots[sid]).col)
                   \/ last.prefer
                   \/ SpecColSource(pre, LastInst) = "ancestor"
     IN IF toSlot
        THEN /\ SlotLoc(doc.slots[sid]).col = last.col
             /\ doc.nodes[nid].startCol = pre.nodes[nid].startCol
        ELSE /\ doc.nodes[nid].startCol = last.col
             /\ SlotLoc(doc.slots[sid]).col = SlotLoc(pre.slots[sid]).col

\* C3: a move of a row-range instance with index k to row r sets startRow to
\* r - k and keeps endRow - startRow; the slot then expands into as many
\* instances as before, each shifted by the same delta, instance k at row r.
C3_RangeMoveKeepsSpan ==
  (/\ Moved /\ LastInst.coord_strategy = "range"
   /\ Has(SlotLoc(pre.slots[LastInst.slot_ref]).startRow)
   /\ Has(SlotLoc(pre.slots[LastInst.slot_ref]).endRow))
  => LET sid   == LastInst.slot_ref
         nid   == LastInst.node_ref
         k     == Val(LastInst.coord_index)
         old   == SlotLoc(pre.slots[sid])
         new   == SlotLoc(doc.slots[sid])
         delta == (last.row - k) - Val(old.startRow)
         P     == SlotPoints(pre.slots[sid], pre.nodes[nid])
         Q     == SlotPoints(doc.slots[sid], doc.nodes[nid])
     IN /\ new.startRow = Some(last.row - k)
        /\ new.endRow = Some(Val(old.endRow) + delta)
        /\ Val(new.endRow) - Val(new.startRow) = Val(old.endRow) - Val(old.startRow)
        /\ Len(Q) = Len(P)
        /\ \A i \in 1..Len(P) :
             /\ Q[i].row = P[i].row + delta
             /\ Q[i].coord_strategy = "range"
             /\ Q[i].coord_index = P[i].coord_index
        /\ (k + 1 <= Len(Q) => Q[k + 1].row = last.row)

\* The second instance of a two-row range has been moved to another row.
C3_Witness ==
  /\ Moved /\ LastInst.coord_strategy = "range"
  /\ LastInst.coord_index = Some(1)
  /\ last.row # LastInst.row
  /\ Len(SlotPoints(doc.slots[LastInst.slot_ref], doc.nodes[LastInst.node_ref])) = 2
  /\ SlotLoc(doc.slots[LastInst.slot_ref]).startRow = Some(last.row - 1)

\* The instance's index is out of bounds for the list it was resolved from.
OutOfBounds(d, inst) ==
  LET slot == d.slots[inst.slot_ref] IN
  \/ /\ inst.coord_strategy = "locations"
     /\ Has(slot.locations)
     /\ Val(inst.coord_index) >= Len(Val(slot.locations))
  \/ /\ inst.coord_strategy = "rows"
     /\ Has(SlotLoc(slot).rows)
     /\ Val(inst.coord_index) >= Len(Val(SlotLoc(slot).rows))

\* C4: apply_move on an instance whose coord_index is out of bounds for its
\* current list raises nothing and leaves the whole document unchanged, with
\* or without a new column.
C4_OutOfBoundsNoOp ==
  (Moved /\ OutOfBounds(pre, LastInst)) => (~last.raised /\ doc = pre)

\* C5: detach on a node that has slots of its own and a non-empty template
\* keeps the node's previous slots, unchanged and in order, and appends one
\* copy per template slot in template order.
C5_DetachAppends ==
  (/\ last.op = "detach" /\ last.ret
   /\ NodeSlots(pre.nodes[last.node]) # <<>>)
  => LET old == NodeSlots(pre.nodes[last.node])
         tpl == BlueprintSlots(pre, pre.nodes[last.node])
         new == NodeSlots(doc.nodes[last.node])
     IN /\ Len(new) = Len(old) + Len(tpl)
        /\ \A i \in 1..Len(old) :
             new[i] = old[i] /\ doc.slots[new[i]] = pre.slots[old[i]]
        /\ \A i \in 1..Len(tpl) :
             doc.slots[new[Len(old) + i]] = pre.slots[tpl[i]]

\* The instances resolve() reports for node nid, in order.
InstancesOf(d, nid) ==
  LET OfNode(x) == x.node_ref = nid IN SelectSeq(Resolve(d), OfNode)

\* What a placement shows apart from its origin.
Placement(x) ==
  <<x.sheet, x.row, x.col, x.layout, x.coord_strategy, x.coord_index>>

\* C6: detach independence.  A node on which detach returned true has no
\* useSlotsFrom, and a later mutation of its slots (apply_move on an instance
\* resolved from them, or a direct edit of their lists) leaves every template's
\* slot definitions and the placements of every other node unchanged.
C6_DetachIndependence ==
  /\ \A n \in detached : ~Has(doc.nodes[n].useSlotsFrom)
  /\ (/\ last.op \in {"apply_move", "shrink"}
      /\ LastInst.node_ref \in detached
      /\ FreshIn(pre, LastInst))
     => /\ doc.templates = pre.templates
        /\ \A t \in DOMAIN pre.templates : \A i \in 1..Len(pre.templates[t]) :
             doc.slots[pre.templates[t][i]] = pre.slots[pre.templates[t][i]]
        /\ \A m \in NodeIds \ {LastInst.node_ref} :
             InstancesOf(doc, m) = InstancesOf(pre, m)

\* A copy made by detach has been moved while another node still inherits the
\* template it was copied from.
C6_Witness ==
  /\ Moved /\ LastInst.node_ref \in detached /\ FreshIn(pre, LastInst)
  /\ LastInst.origin = "node"
  /\ LastInst.slot_ref > Len(InitSlots)
  /\ doc.slots[LastInst.slot_ref] # pre.slots[LastInst.slot_ref]
  /\ \E m \in NodeIds \ {LastInst.node_ref} :
       /\ doc.nodes[m].useSlotsFrom = Some("T1")
       /\ Len(InstancesOf(doc, m)) > 0

\* C7: after a successful detach of a node without slots of its own, the node
\* resolves to the same sequence of placements as before, now with origin
\* "node" instead of "blueprint"; every other node's instances are unchanged.
C7_DetachKeepsPlacements ==
  (/\ last.op = "detach" /\ last.ret
   /\ NodeSlots(pre.nodes[last.node]) = <<>>)
  => LET P == InstancesOf(pre, last.node)
         Q == InstancesOf(doc, last.node)
     IN /\ Len(Q) = Len(P)
        /\ \A i \in 1..Len(P) :
             /\ Placement(Q[i]) = Placement(P[i])
             /\ P[i].origin = "blueprint"
             /\ Q[i].origin = "node"
        /\ \A m \in NodeIds \ {last.node} :
             InstancesOf(doc, m) = InstancesOf(pre, m)

\* A node without own slots has been detached from a template with instances.
C7_Witness ==
  /\ last.op = "detach" /\ last.ret
  /\ NodeSlots(pre.nodes[last.node]) = <<>>
  /\ Len(InstancesOf(pre, last.node)) >= 3
  /\ ~Has(doc.nodes[last.node].useSlotsFrom)

\* The node has no useSlotsFrom, or it names a missing or an empty template.
NoValidTemplate(d, nid) ==
  LET u == d.nodes[nid].useSlotsFrom IN
  \/ ~Has(u)
  \/ Val(u) \notin DOMAIN d.templates
  \/ d.templates[Val(u)] = <<>>

\* C8: detach returns false and leaves the document unchanged when the node
\* has no useSlotsFrom or names a missing or an empty template, and when it is
\* called again on a node it has already detached.
C8_DetachNoOp ==
  (last.op = "detach" /\ (NoValidTemplate(pre, last.node) \/ last.again))
  => (~last.ret /\ doc = pre)

\* A second detach on an already detached node.
C8_Witness ==
  /\ last.op = "detach" /\ last.again /\ last.node \in detached
  /\ ~last.ret /\ doc = pre
  /\ Has(doc.nodes[last.node].slots)

\* C9: edit visibility.  After apply_move with a new row and a new column on
\* an instance resolve() produced on the current document, the next resolve()
\* has, at the same position, an instance at the new row and the new column.
C9_EditVisible ==
  (Moved /\ Has(last.col) /\ FreshIn(pre, LastInst))
  => LET after == Resolve(doc)
         pos   == PosIn(pre, LastInst)
     IN \A i \in pos :
          /\ Len(after) >= i
          /\ after[i].row = last.row
          /\ after[i].col = Val(last.col)

\* A freshly resolved range instance that took its column from its node has
\* been moved to another row and another column without the flag.
C9_Witness ==
  /\ Moved /\ Has(last.col) /\ FreshIn(pre, LastInst)
  /\ LastInst.coord_strategy = "range" /\ LastInst.coord_index = Some(1)
  /\ LastInst.col_source = "node" /\ ~last.prefer
  /\ last.row # LastInst.row /\ Val(last.col) # LastInst.col
  /\ doc # pre

\* What two resolve() results are compared on.
Observed(x) ==
  <<x.sheet, x.row, x.col, x.layout, x.origin, x.coord_strategy, x.coord_index>>

Resolved == last.op = "resolve"

\* The node whose children list holds n, or 0 for a root.
ParentOf(d, n) ==
  IF \E m \in 1..Len(d.nodes) : \E k \in 1..Len(d.nodes[m].children) :
       d.nodes[m].children[k] = n
  THEN CHOOSE m \in 1..Len(d.nodes) : \E k \in 1..Len(d.nodes[m].children) :
         d.nodes[m].children[k] = n
  ELSE 0

\* The nodes from a root down to n.
RECURSIVE PathTo(_, _)
PathTo(d, n) ==
  IF ParentOf(d, n) = 0 THEN <<n>> ELSE Append(PathTo(d, ParentOf(d, n)), n)

IndexIn(s, x) == CHOOSE i \in 1..Len(s) : s[i] = x

\* Node a comes before node b in depth-first pre-order: a is an ancestor of b,
\* or where their paths part a's branch is the earlier one in the array.
NodeBefore(d, a, b) ==
  LET pa == PathTo(d, a)
      pb == PathTo(d, b)
      common == {k \in 1..Len(pa) : k <= Len(pb) /\ \A j \in 1..k : pa[j] = pb[j]}
      c == Cardinality(common)
  IN IF c = Len(pa) THEN Len(pb) > c
     ELSE IF c = Len(pb) THEN FALSE
     ELSE LET sibs == IF c = 0 THEN d.roots ELSE d.nodes[pa[c]].children
          IN IndexIn(sibs, pa[c + 1]) < IndexIn(sibs, pb[c + 1])

\* C11: resolution order.  Of two instances resolve() emits, the earlier one
\* belongs to a node that comes first in depth-first pre-order (children in
\* array order, a node before its descendants); within one node it comes from
\* a node-owned slot and the later from a template slot, or from the slot
\* stored earlier in the same collection; within one slot it has the smaller
\* coord_index.
C11_ResolutionOrder ==
  Resolved =>
    \A i, j \in 1..Len(insts) :
      i < j =>
        LET x == insts[i]
            y == insts[j]
        IN IF x.node_ref # y.node_ref
           THEN NodeBefore(doc, x.node_ref, y.node_ref)
           ELSE IF x.origin # y.origin
           THEN x.origin = "node" /\ y.origin = "blueprint"
           ELSE IF x.slot_index # y.slot_index
           THEN x.slot_index < y.slot_index
           ELSE /\ Has(x.coord_index) /\ Has(y.coord_index)
                /\ Val(x.coord_index) < Val(y.coord_index)

\* resolve() has emitted instances of a node with own and template slots, of
\* its child, and then of its later sibling, and of both roots.
C11_Witness ==
  /\ Resolved
  /\ \E i \in 1..Len(insts) :
       /\ insts[i].node_ref = 2 /\ insts[i].origin = "node"
       /\ \E j \in i + 1..Len(insts) :
            /\ insts[j].node_ref = 2 /\ insts[j].origin = "blueprint"
            /\ \E k \in j + 1..Len(insts) :
                 /\ insts[k].node_ref = 4
                 /\ \E l \in k + 1..Len(insts) :
                      /\ insts[l].node_ref = 3
                      /\ \E m \in l + 1..Len(insts) : insts[m].node_ref = 5

\* The slots node n expands, in order: <<origin, slot_index, slot id>>.
Occurrences(d, n) ==
  LET own == NodeSlots(d.nodes[n])
      bps == BlueprintSlots(d, d.nodes[n])
  IN [i \in 1..Len(own) |-> <<"node", i - 1, own[i]>>]
     \o [i \in 1..Len(bps) |-> <<"blueprint", i - 1, bps[i]>>]

\* The instances of r that come from occurrence o of node n, in order.
OfOccurrence(r, n, o) ==
  LET Is(x) == x.node_ref = n /\ x.origin = o[1] /\ x.slot_index = o[2]
  IN SelectSeq(r, Is)

\* The style a slot presents first in the order locations, rows, row, range.
FirstStyle(slot) ==
  LET loc == SlotLoc(slot) IN
  IF Has(slot.locations) THEN "locations"
  ELSE IF Has(loc.rows) THEN "rows"
  ELSE IF Has(loc.row) THEN "row"
  ELSE IF Has(loc.startRow) /\ Has(loc.endRow) THEN "range"
  ELSE "none"

\* The styles a slot presents.
StylesOf(slot) ==
  LET loc == SlotLoc(slot) IN
  (IF Has(slot.locations) THEN {"locations"} ELSE {})
  \cup (IF Has(loc.rows) THEN {"rows"} ELSE {})
  \cup (IF Has(loc.row) THEN {"row"} ELSE {})
  \cup (IF Has(loc.startRow) /\ Has(loc.endRow) THEN {"range"} ELSE {})

\* The rows the first style of a slot lists.
StyleRows(slot) ==
  LET loc == SlotLoc(slot)
      st  == FirstStyle(slot)
  IN IF st = "locations"
     THEN [i \in 1..Len(Val(slot.locations)) |->
             IF Has(Val(slot.locations)[i].row) THEN Val(Val(slot.locations)[i].row)
             ELSE 1]
     ELSE IF st = "rows" THEN Val(loc.rows)
     ELSE IF st = "row" THEN << Val(loc.row) >>
     ELSE IF st = "range" /\ Val(loc.endRow) >= Val(loc.startRow)
     THEN [k \in 1..(Val(loc.endRow) - Val(loc.startRow) + 1) |->
             Val(loc.startRow) + k - 1]
     ELSE <<>>

\* C12: coordinate-style precedence.  Every slot of every node is expanded
\* with exactly one style, the first it presents in the order locations,
\* location.rows, location.row, startRow and endRow, also when it presents
\* several: all its instances carry that style and sit on that style's rows;
\* a slot that presents none (also one with only startRow or only endRow)
\* yields no instance.
C12_StylePrecedence ==
  Resolved =>
    \A n \in 1..Len(doc.nodes) :
      LET occ == Occurrences(doc, n) IN
      \A k \in 1..Len(occ) :
        LET slot == doc.slots[occ[k][3]]
            got  == OfOccurrence(insts, n, occ[k])
            rows == StyleRows(slot)
        IN /\ \A i \in 1..Len(got) : got[i].coord_strategy = FirstStyle(slot)
           /\ Len(got) = Len(rows)
           /\ \A i \in 1..Len(got) : got[i].row = rows[i]
           /\ (FirstStyle(slot) = "none" => got = <<>>)

\* resolve() has expanded a slot that presents explicit points and a row list,
\* one that presents a row list and a single row, one that presents a single
\* row and a range, and one that presents only startRow.
C12_Witness ==
  /\ Resolved
  /\ \E n \in 1..Len(doc.nodes) : \E k \in 1..Len(Occurrences(doc, n)) :
       LET o == Occurrences(doc, n)[k] IN
       /\ StylesOf(doc.slots[o[3]]) = {"locations", "rows"}
       /\ Len(OfOccurrence(insts, n, o)) = 2
       /\ OfOccurrence(insts, n, o)[1].coord_strategy = "locations"
  /\ \E n \in 1..Len(doc.nodes) : \E k \in 1..Len(Occurrences(doc, n)) :
       LET o == Occurrences(doc, n)[k] IN
       /\ StylesOf(doc.slots[o[3]]) = {"rows", "row"}
       /\ Len(OfOccurrence(insts, n, o)) = 3
       /\ OfOccurrence(insts, n, o)[1].coord_strategy = "rows"
  /\ \E n \in 1..Len(doc.nodes) : \E k \in 1..Len(Occurrences(doc, n)) :
       LET o == Occurrences(doc, n)[k] IN
       /\ StylesOf(doc.slots[o[3]]) = {"row", "range"}
       /\ Len(OfOccurrence(insts, n, o)) = 1
       /\ OfOccurrence(insts, n, o)[1].coord_strategy = "row"
  /\ \E n \in 1..Len(doc.nodes) : \E k \in 1..Len(Occurrences(doc, n)) :
       LET o == Occurrences(doc, n)[k] IN
       /\ StylesOf(doc.slots[o[3]]) = {}
       /\ Has(SlotLoc(doc.slots[o[3]]).startRow)
       /\ OfOccurrence(insts, n, o) = <<>>

\* The instance's column does not come from a point of its own.
NoPointCol(x) == x.col_source # "loc"

\* The instance took the startCol of its owning node.
TookStartCol(d, x) ==
  /\ NoPointCol(x)
  /\ ~Has(SlotLoc(d.slots[x.slot_ref]).col)
  /\ Has(d.nodes[x.node_ref].startCol)

\* The instance fell back to the hard-coded column 1.
FellBack(d, x) ==
  /\ NoPointCol(x)
  /\ ~Has(SlotLoc(d.slots[x.slot_ref]).col)
  /\ ~Has(d.nodes[x.node_ref].startCol)

\* C13: column default chain.  An instance without a column of its own point
\* has the slot's location.col with col_source "slot" when the slot defines
\* col; otherwise the owning node's location.startCol when that is defined;
\* otherwise column 1; and the col_source of an instance that fell back to 1
\* differs from the col_source of an instance that took its node's startCol
\* (ancestor and default are two values).
C13_ColumnDefaultChain ==
  Resolved =>
    /\ \A i \in 1..Len(insts) :
         LET x   == insts[i]
             loc == SlotLoc(doc.slots[x.slot_ref])
         IN NoPointCol(x) =>
              IF Has(loc.col)
              THEN x.col = Val(loc.col) /\ x.col_source = "slot"
              ELSE IF TookStartCol(doc, x)
              THEN /\ x.col = Val(doc.nodes[x.node_ref].startCol)
                   /\ x.col_source # "slot"
              ELSE x.col = 1 /\ x.col_source # "slot"
    /\ \A i, j \in 1..Len(insts) :
         (TookStartCol(doc, insts[i]) /\ FellBack(doc, insts[j]))
         => insts[i].col_source # insts[j].col_source

\* The nearest node above n (n excluded) that defines location.startCol, as a
\* sequence of length 0 or 1.
NearestStartCol(d, n) ==
  LET p == PathTo(d, n)
      defining == {k \in 1..Len(p) - 1 : Has(d.nodes[p[k]].startCol)}
  IN IF defining = {} THEN None
     ELSE d.nodes[p[CHOOSE k \in defining : \A m \in defining : m <= k]].startCol

\* C14: startCol is the fallback column for descendant slots.  An instance of
\* a slot without location.col, owned by a node without startCol that has an
\* ancestor defining startCol, is at the startCol of the nearest such ancestor.
C14_AncestorStartCol ==
  Resolved =>
    \A i \in 1..Len(insts) :
      (FellBack(doc, insts[i]) /\ Has(NearestStartCol(doc, insts[i].node_ref)))
      => insts[i].col = Val(NearestStartCol(doc, insts[i].node_ref))

\* The positions on the path to n (n included) of the nodes for which Def holds.
Defining(d, n, Def(_)) == {k \in 1..Len(PathTo(d, n)) : Def(d.nodes[PathTo(d, n)[k]])}

Last(S) == CHOOSE k \in S : \A m \in S : m <= k

C16_LayoutResolution ==
  Resolved =>
    \A i \in 1..Len(insts) :
      LET x    == insts[i]
          slot == doc.slots[x.slot_ref]
          p    == PathTo(doc, x.node_ref)
          HasLayout(nd) == Has(nd.layout)
          def  == Defining(doc, x.node_ref, HasLayout)
      IN /\ x.layout = IF Has(slot.layout) THEN Val(slot.layout)
                       ELSE IF def # {} THEN Val(doc.nodes[p[Last(def)]].layout)
                       ELSE ""
         /\ x.offsets = IF x.layout \in DOMAIN doc.layouts
                        THEN doc.layouts[x.layout] ELSE {}

\* After remove_layout("L1"), resolve() has emitted an instance whose slot
\* names L1, with empty offsets; an instance that takes its layout from its
\* parent (the owning node has none, the slot has none); and an instance of a
\* slot with its own layout under a node with another layout.
C16_Witness ==
  /\ Resolved /\ steps > 0
  /\ "L1" \notin DOMAIN doc.layouts
  /\ \E i \in 1..Len(insts) :
       /\ doc.slots[insts[i].slot_ref].layout = Some("L1")
       /\ insts[i].layout = "L1" /\ insts[i].offsets = {}
  /\ \E i \in 1..Len(insts) :
       /\ insts[i].node_ref = 4
       /\ ~Has(doc.slots[insts[i].slot_ref].layout)
       /\ ~Has(doc.nodes[4].layout) /\ Has(doc.nodes[2].layout)
       /\ insts[i].layout = Val(doc.nodes[2].layout)
  /\ \E i \in 1..Len(insts) :
       /\ Has(doc.slots[insts[i].slot_ref].layout)
       /\ Has(doc.nodes[insts[i].node_ref].layout)
       /\ doc.nodes[insts[i].node_ref].layout # doc.slots[insts[i].slot_ref].layout
       /\ insts[i].layout = Val(doc.slots[insts[i].slot_ref].layout)

\* C17: row-list expansion.  A slot expanded from location.rows = [r0, ...,
\* r(n-1)], without a col of its own, under a node with startCol = c, yields
\* exactly n instances with strategy rows, at rows r0..r(n-1) in list order,
\* with coord_index 0..n-1, each at column c with the col_source of a column
\* taken from the node ("node" in the code, ancestor in the claim).
C17_RowListExpansion ==
  Resolved =>
    \A n \in 1..Len(doc.nodes) :
      LET occ == Occurrences(doc, n) IN
      \A k \in 1..Len(occ) :
        LET slot == doc.slots[occ[k][3]]
            loc  == SlotLoc(slot)
            got  == OfOccurrence(insts, n, occ[k])
        IN (/\ ~Has(slot.locations) /\ Has(loc.rows)
            /\ ~Has(loc.col) /\ Has(doc.nodes[n].startCol))
           => /\ Len(got) = Len(Val(loc.rows))
              /\ \A i \in 1..Len(got) :
                   /\ got[i].coord_strategy = "rows"
                   /\ got[i].row = Val(loc.rows)[i]
                   /\ got[i].coord_index = Some(i - 1)
                   /\ got[i].col = Val(doc.nodes[n].startCol)
                   /\ got[i].col_source = "node"

\* resolve() has expanded rows [12, 15, 18] under a node with startCol 4 into
\* three instances at column 4.
C17_Witness ==
  /\ Resolved
  /\ \E n \in 1..Len(doc.nodes) : \E k \in 1..Len(Occurrences(doc, n)) :
       LET o   == Occurrences(doc, n)[k]
           got == OfOccurrence(insts, n, o)
       IN /\ SlotLoc(doc.slots[o[3]]).rows = Some(<<12, 15, 18>>)
          /\ doc.nodes[n].startCol = Some(4)
          /\ Len(got) = 3
          /\ got[1].row = 12 /\ got[2].row = 15 /\ got[3].row = 18
          /\ \A i \in 1..3 : got[i].col = 4 /\ got[i].coord_strategy = "rows"

RECURSIVE SumSeq(_)
SumSeq(s) == IF s = <<>> THEN 0 ELSE Head(s) + SumSeq(Tail(s))

\* The count the addressing style of a slot implies, as the claim computes it:
\* the length of locations, the length of rows, 1, or endRow - startRow + 1.
SpanCount(slot) ==
  LET loc == SlotLoc(slot)
      st  == FirstStyle(slot)
  IN IF st = "locations" THEN Len(Val(slot.locations))
     ELSE IF st = "rows" THEN Len(Val(loc.rows))
     ELSE IF st = "row" THEN 1
     ELSE IF st = "range" THEN Val(loc.endRow) - Val(loc.startRow) + 1
     ELSE 0

\* The same, with a range that ends before it starts counted as empty.
StyleCount(slot) == IF SpanCount(slot) < 0 THEN 0 ELSE SpanCount(slot)

\* The instances of node n that take the node's column and sheet (their slot
\* and point define neither) agree on both.
ShareColumnAndSheet(d, r, n) ==
  \A i, j \in 1..Len(r) :
    (/\ r[i].node_ref = n /\ r[j].node_ref = n
     /\ \A x \in {r[i], r[j]} :
          /\ NoPointCol(x)
          /\ ~Has(SlotLoc(d.slots[x.slot_ref]).col)
          /\ ~Has(SlotLoc(d.slots[x.slot_ref]).sheetName))
    => r[i].col = r[j].col /\ r[i].sheet = r[j].sheet

\* C18 as stated: the number of instances resolved for a node is the sum, over
\* its node-owned and template slots, of the length of locations, the length
\* of rows, 1, or endRow - startRow + 1, whatever the slot's count field says.
C18_InstanceCount ==
  Resolved =>
    \A n \in 1..Len(doc.nodes) :
      LET occ == Occurrences(doc, n) IN
      /\ Len(SelectSeq(insts, LAMBDA x : x.node_ref = n)) =
           SumSeq([k \in 1..Len(occ) |-> SpanCount(doc.slots[occ[k][3]])])
      /\ ShareColumnAndSheet(doc, insts, n)

\* C18, amended: the number of instances resolved for a node is the sum, over
\* its node-owned and template slots, of the length of locations, the length
\* of rows, 1, or the number of rows from startRow to endRow (endRow -
\* startRow + 1, and 0 when endRow < startRow), whatever the slot's count
\* field says; the instances come slot by slot in slot order and those whose
\* slot overrides neither share the node's column and sheet.
C18_InstanceCountByStyle ==
  Resolved =>
    \A n \in 1..Len(doc.nodes) :
      LET occ == Occurrences(doc, n)
          OfNode(x) == x.node_ref = n
          got == SelectSeq(insts, OfNode)
      IN /\ Len(got) =
              SumSeq([k \in 1..Len(occ) |-> StyleCount(doc.slots[occ[k][3]])])
         /\ \A k \in 1..Len(occ) :
              Len(OfOccurrence(insts, n, occ[k])) = StyleCount(doc.slots[occ[k][3]])
         /\ got = Flatten([k \in 1..Len(occ) |-> OfOccurrence(insts, n, occ[k])])
         /\ ShareColumnAndSheet(doc, insts, n)

\* resolve() has expanded, for a node that uses the template rows [12],
\* 14..15, 17..39, 1 + 2 + 23 = 26 instances at the node's column and sheet,
\* and in the same document a slot whose count differs from its span and a
\* range that ends before it starts.
C18_Witness ==
  /\ Resolved
  /\ LET OfE(x) == x.node_ref = 5
         got == SelectSeq(insts, OfE)
     IN /\ doc.nodes[5].useSlotsFrom = Some("STD")
        /\ Len(got) = 26
        /\ \A i \in 1..26 : got[i].col = 4 /\ got[i].sheet = "S5"
        /\ got[1].row = 12 /\ got[2].row = 14 /\ got[4].row = 17 /\ got[26].row = 39
  /\ \E n \in 1..Len(doc.nodes) : \E k \in 1..Len(Occurrences(doc, n)) :
       LET o == Occurrences(doc, n)[k] IN
       /\ doc.slots[o[3]].count = Some(5)
       /\ Len(OfOccurrence(insts, n, o)) = 2
  /\ \E n \in 1..Len(doc.nodes) : \E k \in 1..Len(Occurrences(doc, n)) :
       LET o == Occurrences(doc, n)[k] IN
       /\ SpanCount(doc.slots[o[3]]) < 0
       /\ OfOccurrence(insts, n, o) = <<>>

\* The layout a slot names does not exist in the layout table.
Dangling(d, sid) ==
  Has(d.slots[sid].layout) /\ Val(d.slots[sid].layout) \notin DOMAIN d.layouts

\* errors holds a message about a slot of owner (a template or a node) that
\* names the missing layout ref.
SlotReported(errors, owner, ref) ==
  \E i \in 1..Len(errors) :
    errors[i].kind = "slot" /\ errors[i].owner = owner /\ errors[i].ref = ref

\* C19: validate() reports an error for every slot whose layout names a layout
\* that is not in the layout table: for the slots of every template, and for
\* the node-owned slots of every node of the organization tree.
C19_DanglingSlotLayoutsReported ==
  last.op = "validate" =>
    /\ \A t \in DOMAIN doc.templates : \A i \in 1..Len(doc.templates[t]) :
         Dangling(doc, doc.templates[t][i])
         => SlotReported(last.errors, t, Val(doc.slots[doc.templates[t][i]].layout))
    /\ \A n \in 1..Len(doc.nodes) : \A i \in 1..Len(NodeSlots(doc.nodes[n])) :
         Dangling(doc, NodeSlots(doc.nodes[n])[i])
         => SlotReported(last.errors, doc.nodes[n].name,
                         Val(doc.slots[NodeSlots(doc.nodes[n])[i]].layout))

\* errors holds a message of the given kind about the node named owner.
NodeReported(errors, kind, owner) ==
  \E i \in 1..Len(errors) : errors[i].kind = kind /\ errors[i].owner = owner

\* C20: validate() reports an error for every node of the organization tree,
\* at any depth, whose layout is not in the layout table, and for every node
\* whose useSlotsFrom names no existing template, naming the missing layout or
\* template; it reports no such error for a node whose reference exists (or
\* that has none); and it leaves the document unchanged.
C20_NodeReferencesReported ==
  last.op = "validate" =>
    /\ \A n \in 1..Len(doc.nodes) :
         LET nd == doc.nodes[n] IN
         /\ (Has(nd.layout) /\ Val(nd.layout) \notin DOMAIN doc.layouts)
            <=> NodeReported(last.errors, "node_layout", nd.name)
         /\ (Has(nd.useSlotsFrom) /\ Val(nd.useSlotsFrom) \notin DOMAIN doc.templates)
            <=> NodeReported(last.errors, "node_blueprint", nd.name)
    /\ \A i \in 1..Len(last.errors) :
         LET e == last.errors[i] IN
         e.kind \in {"node_layout", "node_blueprint"} =>
           \E n \in 1..Len(doc.nodes) :
             /\ doc.nodes[n].name = e.owner
             /\ Some(e.ref) = IF e.kind = "node_layout" THEN doc.nodes[n].layout
                              ELSE doc.nodes[n].useSlotsFrom
             /\ (e.kind = "node_layout" => e.at = [k \in 1..Len(PathTo(doc, n)) |->
                                                    doc.nodes[PathTo(doc, n)[k]].name])
    /\ doc = pre

\* validate() has run after remove_layout("L1") and reported the root (whose
\* layout was L1) and the node at depth 3 (missing layout and missing
\* template), and nothing for the node whose layout and template exist.
C20_Witness ==
  /\ last.op = "validate" /\ steps > 0
  /\ doc.nodes[1].layout = Some("L1") /\ "L1" \notin DOMAIN doc.layouts
  /\ NodeReported(last.errors, "node_layout", "A")
  /\ NodeReported(last.errors, "node_layout", "D")
  /\ NodeReported(last.errors, "node_blueprint", "D")
  /\ "L2" \in DOMAIN doc.layouts
  /\ ~NodeReported(last.errors, "node_layout", "C")
  /\ ~NodeReported(last.errors, "node_blueprint", "C")
  /\ doc = pre

\* ------------------------------------------------------ claims on the ranks
Validated == last.op = "validate"

\* The messages of list msgs of the given kind about rank entry i.
RankMessages(msgs, kind, i) ==
  {k \in 1..Len(msgs) : msgs[k].kind = kind /\ msgs[k].at = <<i>>}

\* The rank list with every abbreviation taken out.
WithoutAbbrs(ranks) ==
  [i \in 1..Len(ranks) |-> [ranks[i] EXCEPT !.abbr = None]]

RankKinds == {"rank_empty_name", "rank_duplicate_name", "rank_duplicate_abbr"}

OfRanks(msgs) == LET IsRank(m) == m.kind \in RankKinds IN SelectSeq(msgs, IsRank)

\* C21: validate() on the rank list: an entry with an empty (or absent) name
\* produces an error; an entry whose name repeats an earlier entry's name
\* produces an error; an entry whose (non-empty) abbreviation repeats an
\* earlier entry's abbreviation produces a warning and no error: the errors
\* are those of the same list without any abbreviation.
C21_RankChecks ==
  Validated =>
    LET ranks == pre.ranks IN
    /\ \A i \in 1..Len(ranks) :
         /\ (~Has(ranks[i].name) \/ Val(ranks[i].name) = <<>>)
            => RankMessages(last.errors, "rank_empty_name", i) # {}
         /\ (\E j \in 1..(i - 1) : ranks[j].name = ranks[i].name)
            => RankMessages(last.errors, "rank_duplicate_name", i) # {}
         /\ (/\ Has(ranks[i].abbr) /\ Val(ranks[i].abbr) # <<>>
             /\ \E j \in 1..(i - 1) : ranks[j].abbr = ranks[i].abbr)
            => /\ RankMessages(last.warnings, "rank_duplicate_abbr", i) # {}
               /\ RankMessages(last.errors, "rank_duplicate_abbr", i) = {}
    /\ OfRanks(last.errors)
         = OfRanks(Validate([pre EXCEPT !.ranks = WithoutAbbrs(ranks)]))
    /\ \A k \in 1..Len(last.warnings) :
         last.warnings[k].kind # "rank_empty_name"
         /\ last.warnings[k].kind # "rank_duplicate_name"

\* validate() has run on three ranks: two valid ones that share an
\* abbreviation, and one with an empty name.
C21_Witness ==
  /\ Validated /\ Len(pre.ranks) = 3
  /\ pre.ranks[1].name = Some(<<"a">>) /\ pre.ranks[2].name = Some(<<"b">>)
  /\ pre.ranks[3].name = Some(<<>>)
  /\ pre.ranks[1].abbr = Some(<<"a">>) /\ pre.ranks[2].abbr = Some(<<"a">>)
  /\ Len(OfRanks(last.errors)) = 1
  /\ Len(OfRanks(last.warnings)) = 1

\* --------------------------------------------- claims on missing templates
\* Node n names a template that is not in SLOT_BLUEPRINTS.
MissingTemplate(d, n) ==
  /\ Has(d.nodes[n].useSlotsFrom)
  /\ Val(d.nodes[n].useSlotsFrom) \notin DOMAIN d.templates

\* Document d with node n's useSlotsFrom key taken out.
WithoutUseSlotsFrom(d, n) == [d EXCEPT !.nodes[n].useSlotsFrom = None]

\* C22: a node whose useSlotsFrom names a template that does not exist has no
\* template-origin instance in resolve()'s result, and the result as a whole
\* (the node's own slots, its descendants and everything else) is the one
\* resolve() gives when the node has no useSlotsFrom at all.
C22_MissingTemplate ==
  Resolved =>
    \A n \in 1..Len(pre.nodes) :
      MissingTemplate(pre, n)
      => /\ \A i \in 1..Len(insts) :
              insts[i].node_ref = n => insts[i].origin = "node"
         /\ insts = Resolve(WithoutUseSlotsFrom(pre, n))

\* resolve() has run on a document in which B names a missing template, has
\* slots of its own and a child with instances.
C22_Witness ==
  /\ Resolved /\ MissingTemplate(pre, 2)
  /\ \E i \in 1..Len(insts) : insts[i].node_ref = 2 /\ insts[i].origin = "node"
  /\ \E i \in 1..Len(insts) : insts[i].node_ref = 4
  /\ \E i \in 1..Len(insts) : insts[i].origin = "blueprint"

\* ------------------------------------------- claims on apply_move's frame
\* The last call moved an explicit-points instance whose index is in bounds.
MovedPoint ==
  /\ Moved /\ LastInst.coord_strategy = "locations"
  /\ Has(pre.slots[LastInst.slot_ref].locations)
  /\ Val(LastInst.coord_index) < Len(Val(pre.slots[LastInst.slot_ref].locations))

\* C23: apply_move on an explicit-points instance with in-bounds coord_index
\* i sets locations[i].row to new_row and, when new_col is given,
\* locations[i].col to new_col; the other points, the slot's location, the
\* owning node and the rest of the document are unchanged, whatever the flag.
C23_PointMoveFrame ==
  MovedPoint =>
    LET sid == LastInst.slot_ref
        i   == Val(LastInst.coord_index) + 1
        old == Val(pre.slots[sid].locations)
        new == Val(doc.slots[sid].locations)
    IN /\ ~last.raised
       /\ Len(new) = Len(old)
       /\ new[i].row = Some(last.row)
       /\ new[i].col = (IF Has(last.col) THEN last.col ELSE old[i].col)
       /\ \A j \in 1..Len(old) : j # i => new[j] = old[j]
       /\ doc.slots[sid].loc = pre.slots[sid].loc
       /\ doc.slots[sid].hasLocation = pre.slots[sid].hasLocation
       /\ doc.nodes = pre.nodes
       /\ doc = [pre EXCEPT !.slots[sid].locations = Some(new)]

\* The second point of the root's slot got a new row and a new column, with
\* the flag set.
C23_Witness ==
  /\ MovedPoint /\ LastInst.coord_index = Some(1) /\ last.prefer
  /\ Has(last.col)
  /\ Val(pre.slots[LastInst.slot_ref].locations)[2].col # last.col
  /\ Val(pre.slots[LastInst.slot_ref].locations)[2].row # Some(last.row)
  /\ Val(doc.slots[LastInst.slot_ref].locations)[2] = Point(Some(last.row), last.col)

\* The last call moved a row-list instance whose index is in bounds, without a
\* new column.
MovedRowEntry ==
  /\ Moved /\ LastInst.coord_strategy = "rows" /\ ~Has(last.col)
  /\ Has(SlotLoc(pre.slots[LastInst.slot_ref]).rows)
  /\ Val(LastInst.coord_index) < Len(Val(SlotLoc(pre.slots[LastInst.slot_ref]).rows))

\* C24: apply_move on a row-list instance with in-bounds coord_index i and no
\* new column sets only location.rows[i] to new_row; the other entries, the
\* length of the list and the rest of the document are unchanged, and on the
\* next resolve() only the instances of that slot with coord_index i differ,
\* by their row; the slot's other instances keep their rows.
C24_RowListMoveFrame ==
  MovedRowEntry =>
    LET sid == LastInst.slot_ref
        i   == Val(LastInst.coord_index) + 1
        old == Val(SlotLoc(pre.slots[sid]).rows)
        new == Val(SlotLoc(doc.slots[sid]).rows)
        P   == Resolve(pre)
        Q   == Resolve(doc)
    IN /\ Len(new) = Len(old)
       /\ new[i] = last.row
       /\ \A j \in 1..Len(old) : j # i => new[j] = old[j]
       /\ doc = [pre EXCEPT !.slots[sid].loc.rows = Some(new)]
       /\ Len(Q) = Len(P)
       /\ \A k \in 1..Len(P) :
            IF P[k].slot_ref = sid /\ Val(P[k].coord_index) = i - 1
            THEN Q[k] = [P[k] EXCEPT !.row = last.row]
            ELSE Q[k] = P[k]

\* The first entry of a two-entry row list has been moved to another row and
\* the slot's second instance is where it was.
C24_Witness ==
  /\ MovedRowEntry /\ LastInst.coord_index = Some(0)
  /\ Len(Val(SlotLoc(pre.slots[LastInst.slot_ref]).rows)) = 2
  /\ Val(SlotLoc(pre.slots[LastInst.slot_ref]).rows)[1] # last.row
  /\ Val(SlotLoc(doc.slots[LastInst.slot_ref]).rows)[1] = last.row
  /\ \E k \in 1..Len(insts) :
       /\ insts[k].slot_ref = LastInst.slot_ref
       /\ insts[k].coord_index = Some(1)
       /\ insts[k] \in {Resolve(doc)[m] : m \in 1..Len(Resolve(doc))}

\* -------------------------------------------- claims on template sharing
\* The slot ids held by the templates of document d.
TemplateSlotIds(d) ==
  UNION {{d.templates[t][i] : i \in 1..Len(d.templates[t])} : t \in DOMAIN d.templates}

\* The last call moved an instance that was resolved from a template for a
\* node that has been detached since.
MovedStaleTemplateInstance ==
  /\ Moved /\ LastInst.origin = "blueprint"
  /\ LastInst.node_ref \in detached
  /\ ~Has(pre.nodes[LastInst.node_ref].useSlotsFrom)

\* C25: stale selection across detach.  When an instance resolved from a
\* template for a node is kept, the node is detached, and apply_move is then
\* called with the kept instance, the edit lands in the node's own copy: the
\* node has an instance at the new row on the next resolve(), and the
\* templates' slot definitions and the placements of every other node are
\* unchanged.
C25_StaleSelectionAfterDetach ==
  MovedStaleTemplateInstance =>
    LET n == LastInst.node_ref IN
    /\ \E k \in 1..Len(InstancesOf(doc, n)) :
         /\ InstancesOf(doc, n)[k].row = last.row
         /\ InstancesOf(doc, n)[k].coord_strategy = LastInst.coord_strategy
         /\ InstancesOf(doc, n)[k].coord_index = LastInst.coord_index
    /\ \A s \in TemplateSlotIds(pre) : doc.slots[s] = pre.slots[s]
    /\ \A m \in NodeIds \ {n} : InstancesOf(doc, m) = InstancesOf(pre, m)

\* The last call moved an instance resolve() had just produced from a
\* template.
MovedTemplateInstance ==
  /\ Moved /\ LastInst.origin = "blueprint" /\ FreshIn(pre, LastInst)

\* The nodes of document d whose useSlotsFrom is the given name.
UsersOf(d, name) == {m \in 1..Len(d.nodes) : d.nodes[m].useSlotsFrom = name}

\* C26: template edits are shared.  After apply_move on an instance with
\* origin template, the slot written is the template's own, and on the next
\* resolve() every node whose useSlotsFrom names that template has, for the
\* same slot_index and coord_index, a template instance at the new row, and
\* at the new column when the column was written to the slot.
C26_TemplateEditsShared ==
  MovedTemplateInstance =>
    LET t   == Val(LastInst.origin_name)
        sid == LastInst.slot_ref
        colToSlot ==
          /\ Has(last.col)
          /\ \/ SlotLoc(doc.slots[sid]).col = last.col
             \/ LastInst.coord_strategy = "locations"
    IN /\ doc.templates[t][LastInst.slot_index + 1] = sid
       /\ doc.templates = pre.templates
       /\ \A m \in UsersOf(doc, LastInst.origin_name) :
            \E k \in 1..Len(InstancesOf(doc, m)) :
              LET x == InstancesOf(doc, m)[k] IN
              /\ x.origin = "blueprint" /\ x.slot_ref = sid
              /\ x.slot_index = LastInst.slot_index
              /\ x.coord_index = LastInst.coord_index
              /\ x.row = last.row
              /\ (colToSlot => x.col = Val(last.col))

\* A template instance of one node has been moved to a new row and column and
\* two nodes inherit the template.
C26_Witness ==
  /\ MovedTemplateInstance /\ Has(last.col)
  /\ last.row # LastInst.row /\ Val(last.col) # LastInst.col
  /\ Cardinality(UsersOf(doc, LastInst.origin_name)) = 2
  /\ \A m \in UsersOf(doc, LastInst.origin_name) :
       \E k \in 1..Len(InstancesOf(doc, m)) :
         /\ InstancesOf(doc, m)[k].row = last.row
         /\ InstancesOf(doc, m)[k].col = Val(last.col)
         /\ InstancesOf(doc, m)[k].slot_ref = LastInst.slot_ref

\* ------------------------------------------ claims on the resolution shape
\* The last call moved an instance resolve() had just produced.
MovedFresh == Moved /\ FreshIn(pre, LastInst)

\* C27: apply_move preserves the shape of the resolution.  After apply_move
\* on an instance freshly produced by resolve(), with any new row, new column
\* and flag, the next resolve() returns as many instances as before, and at
\* every position the instance differs from the earlier one in row, col and
\* col_source at most: node path, origin, slot_index, coord_strategy and
\* coord_index are the same.
C27_ShapePreserved ==
  MovedFresh =>
    LET P == Resolve(pre)
        Q == Resolve(doc)
    IN /\ Len(Q) = Len(P)
       /\ \A k \in 1..Len(P) :
            /\ Q[k].node_path_names = P[k].node_path_names
            /\ Q[k].origin = P[k].origin
            /\ Q[k].slot_index = P[k].slot_index
            /\ Q[k].coord_strategy = P[k].coord_strategy
            /\ Q[k].coord_index = P[k].coord_index
            /\ Q[k] = [P[k] EXCEPT !.row = Q[k].row, !.col = Q[k].col,
                                   !.col_source = Q[k].col_source]

\* A freshly resolved row-range instance has been moved to a new row and a
\* new column, and an instance now reports another col_source.
C27_Witness ==
  /\ MovedFresh /\ LastInst.coord_strategy = "range" /\ Has(last.col)
  /\ last.row # LastInst.row
  /\ LET P == Resolve(pre)
         Q == Resolve(doc)
     IN /\ Len(Q) = Len(P)
        /\ \E k \in 1..Len(P) : Q[k].row # P[k].row
        /\ \E k \in 1..Len(P) : Q[k].col_source # P[k].col_source

\* The last call moved an instance with origin node.
MovedNodeInstance == Moved /\ LastInst.origin = "node"

\* C28: isolation of node-owned edits.  After apply_move on an instance with
\* origin node, resolve() gives every other node (ancestors, descendants and
\* siblings of the owning node) the placements it had before, and every
\* template holds the slot definitions it held before.
C28_NodeEditIsolated ==
  MovedNodeInstance =>
    /\ \A m \in 1..Len(pre.nodes) :
         m # LastInst.node_ref => InstancesOf(doc, m) = InstancesOf(pre, m)
    /\ doc.templates = pre.templates
    /\ \A s \in TemplateSlotIds(pre) : doc.slots[s] = pre.slots[s]

\* An own slot of B has been moved to a new row and a new column, B's
\* placements have changed, and B's parent, child and sibling have instances.
C28_Witness ==
  /\ MovedNodeInstance /\ LastInst.node_ref = 2 /\ Has(last.col)
  /\ InstancesOf(doc, 2) # InstancesOf(pre, 2)
  /\ \A m \in {1, 3, 4} : Len(InstancesOf(doc, m)) > 0
  /\ \E k \in 1..Len(InstancesOf(doc, 2)) :
       /\ InstancesOf(doc, 2)[k].row = last.row
       /\ InstancesOf(doc, 2)[k].col = Val(last.col)

\* -------------------------------------------------- claims on repeated moves
\* The last call repeated the call before it: apply_move with the same
\* instance, row, column and flag.
MovedAgain == Moved /\ last.again

\* C29: apply_move is idempotent.  A second apply_move with the same
\* instance, new_row, new_col and flag, right after the first, leaves the
\* document as the first call left it: a row range is not shifted again and
\* no further column field is written.
C29_MoveIdempotent == MovedAgain => doc = pre

\* A row-range instance has been moved twice with the same new row and
\* column, and the range is no longer where the initial documents have it.
C29_Witness ==
  /\ MovedAgain /\ LastInst.coord_strategy = "range" /\ Has(last.col)
  /\ LastInst.slot_ref <= Len(InitSlots)
  /\ doc.slots[LastInst.slot_ref] # InitSlots[LastInst.slot_ref]
  /\ SlotLoc(doc.slots[LastInst.slot_ref]).startRow
       = Some(last.row - Val(LastInst.coord_index))
  /\ SlotLoc(doc.slots[LastInst.slot_ref]).col = last.col

\* --------------------------------------------- claims on column ownership
\* OrgNodeEditor._apply's startCol lines: a positive value is stored in the
\* node's location, any other value removes the key.
ApplyStartCol(d, nid, sc) ==
  [d EXCEPT !.nodes[nid].startCol = IF sc > 0 THEN Some(sc) ELSE None]

\* The values the start column spin box (range 1..10000) is applied with.
StartColValues == 1..(MaxCol + 3)

\* The last call moved, with a new column and the flag unset, a freshly
\* resolved row-list, single-row or row-range instance whose slot had no
\* location.col and whose column came from the owning node's startCol.
MovedInheritedColumn ==
  /\ MovedFresh /\ Has(last.col) /\ ~last.prefer
  /\ LastInst.coord_strategy \in RowStyles
  /\ ~Has(SlotLoc(pre.slots[LastInst.slot_ref]).col)
  /\ SpecColSource(pre, LastInst) = "ancestor"

\* The instances resolve() gives on d for slot sid.
InstancesOfSlot(d, sid) ==
  LET OfSlot(x) == x.slot_ref = sid IN SelectSeq(Resolve(d), OfSlot)

\* C30: column ownership after an edit.  After apply_move with a new column
\* and the flag unset on a row-list, single-row or row-range instance whose
\* slot had no location.col and whose col_source was ancestor, the slot's
\* location.col is new_col, the owning node's startCol is what it was, the
\* next resolve() reports col_source slot and column new_col for the slot's
\* instances, and they stay there whatever the node's startCol is set to.
C30_ColumnOwnership ==
  MovedInheritedColumn =>
    LET sid == LastInst.slot_ref
        nid == LastInst.node_ref
        X   == InstancesOfSlot(doc, sid)
    IN /\ SlotLoc(doc.slots[sid]).col = last.col
       /\ doc.nodes[nid].startCol = pre.nodes[nid].startCol
       /\ Len(X) > 0
       /\ \A k \in 1..Len(X) :
            X[k].col_source = "slot" /\ X[k].col = Val(last.col)
       /\ \A sc \in StartColValues :
            InstancesOfSlot(ApplyStartCol(doc, nid, sc), sid) = X

\* An instance that took its column from its node's startCol has been moved
\* to another column, and the node still has the startCol it had.
C30_Witness ==
  /\ MovedInheritedColumn
  /\ Some(LastInst.col) = pre.nodes[LastInst.node_ref].startCol
  /\ Val(last.col) # LastInst.col
  /\ SlotLoc(doc.slots[LastInst.slot_ref]).col = last.col
  /\ doc.nodes[LastInst.node_ref].startCol = Some(LastInst.col)
  /\ Len(InstancesOfSlot(doc, LastInst.slot_ref)) > 1

====
